---- MODULE Spec2Model ----
(***************************************************************************)
(* SecureStego: a file is encrypted under a key derived from a 6-digit PIN *)
(* and the salt, IV, raw key and MAC are hidden in the least-significant   *)
(* bits of a cover image.                                                  *)
(*                                                                         *)
(* Part I   byte helpers and the LSB codec (js/steganography.js)           *)
(* Part II  the Web Crypto primitives behind crypto.js (js/app.js:650-)    *)
(* Part III the application: handlers of app.js, specification Spec;       *)
(*          SpecResults (encrypt tab alone), SpecLive (stages scheduled)   *)
(* Part IV  the codec harness, specification SpecCodec                     *)
(* Part V   properties of the application, checked under Spec              *)
(* Part VI  the exported functions called directly, specification SpecCalls*)
(* Part VII the ZIP writer, specification SpecZip                          *)
(***************************************************************************)
EXTENDS Integers, Sequences, FiniteSets, TLC

(***************************************************************************)
(* Part I.  Byte helpers and the LSB codec.                                *)
(* Arrays are sequences; a JavaScript index i is the TLA+ index i + 1.     *)
(***************************************************************************)

\* steganography.js:9-13
HEADER_SIZE == 4
SALT_SIZE == 16
IV_SIZE == 12
HMAC_SIZE == 32
KEY_SIZE == 32

Byte == 0..255

Pow2(n) == 2 ^ n

\* new Uint8Array(n): n zero bytes
Zeros(n) == [i \in 1..n |-> 0]

\* a variant of BitAt that counts the shift from the other end: (x >> (7 - s)) & 1
BitAtMirrored(x, s) == (x \div Pow2(7 - s)) % 2

\* (x >> s) & 1 for a byte x
BitAt(x, s) == (x \div Pow2(s)) % 2

\* a variant of OrBit that assembles a byte from its low end: bit << (7 - s)
OrBitLowFirst(x, bit, s) == IF bit = 1 /\ BitAt(x, 7 - s) = 0 THEN x + Pow2(7 - s) ELSE x

\* x | (bit << s) for a byte x and a single bit
OrBit(x, bit, s) == IF bit = 1 /\ BitAt(x, s) = 0 THEN x + Pow2(s) ELSE x

\* TypedArray.prototype.set(src, offset): src overwrites target from offset
SetAt(target, src, offset) ==
    [i \in 1..Len(target) |->
        IF i > offset /\ i <= offset + Len(src) THEN src[i - offset] ELSE target[i]]

\* TypedArray.prototype.slice(from, to), 0-based, end exclusive
Slice(arr, from, to) == [i \in 1..(to - from) |-> arr[from + i]]

\* a variant of numberToBytes that writes the low byte first
numberToBytesLittle(num) ==
    << num % 256,
       (num \div Pow2(8)) % 256,
       (num \div Pow2(16)) % 256,
       (num \div Pow2(24)) % 256 >>

\* steganography.js:20-27; num is a non-negative 32-bit integer
numberToBytes(num) ==
    << (num \div Pow2(24)) % 256,
       (num \div Pow2(16)) % 256,
       (num \div Pow2(8)) % 256,
       num % 256 >>

\* a variant of bytesToNumber that masks the sign bit away: & 0x7FFFFFFF
bytesToNumberMasked(bytes) ==
    (bytes[1] % 128) * Pow2(24) + bytes[2] * Pow2(16) + bytes[3] * Pow2(8) + bytes[4]

\* steganography.js:34-36; the result of << and | is a signed 32-bit integer:
\* a first byte of 128 or more sets the sign bit
bytesToNumber(bytes) ==
    LET top == IF bytes[1] >= 128 THEN bytes[1] - 256 ELSE bytes[1]
    IN  top * Pow2(24) + bytes[2] * Pow2(16) + bytes[3] * Pow2(8) + bytes[4]

\* A canvas is its dimensions and its RGBA bytes in raster order.
\* ctx.getImageData(0, 0, w, h).data is a copy of the bytes;
\* ctx.putImageData writes a copy back.
Canvas(w, h, data) == [width |-> w, height |-> h, data |-> data]

\* a variant of dataToEmbedOf that puts the MAC before the key
dataToEmbedKeyLast(salt, iv, hmac, keyBytes) ==
    LET totalDataSize == SALT_SIZE + IV_SIZE + KEY_SIZE + HMAC_SIZE
    IN  numberToBytes(totalDataSize) \o salt \o iv \o hmac \o keyBytes

\* steganography.js:53-68: [length][salt][iv][key][hmac]
dataToEmbedOf(salt, iv, hmac, keyBytes) ==
    LET totalDataSize == SALT_SIZE + IV_SIZE + KEY_SIZE + HMAC_SIZE
        d0 == Zeros(HEADER_SIZE + totalDataSize)
        d1 == SetAt(d0, numberToBytes(totalDataSize), 0)
        d2 == SetAt(d1, salt, HEADER_SIZE)
        d3 == SetAt(d2, iv, HEADER_SIZE + SALT_SIZE)
        d4 == SetAt(d3, keyBytes, HEADER_SIZE + SALT_SIZE + IV_SIZE)
    IN  SetAt(d4, hmac, HEADER_SIZE + SALT_SIZE + IV_SIZE + KEY_SIZE)

\* a variant of EmbedChannels that does not clear the bit before it sets it:
\* pixels[pixelIndex] | bit
RECURSIVE EmbedChannelsOr(_, _, _, _, _, _)
EmbedChannelsOr(pixels, data, i, channel, dataIndex, bitIndex) ==
    IF ~(channel < 3 /\ dataIndex < Len(data))
    THEN [pixels |-> pixels, dataIndex |-> dataIndex, bitIndex |-> bitIndex]
    ELSE LET pixelIndex == i + channel
             bit == BitAt(data[dataIndex + 1], 7 - bitIndex)
             written == [pixels EXCEPT ![pixelIndex + 1] = IF @ % 2 = 0 THEN @ + bit ELSE @]
         IN  IF bitIndex + 1 = 8
             THEN EmbedChannelsOr(written, data, i, channel + 1, dataIndex + 1, 0)
             ELSE EmbedChannelsOr(written, data, i, channel + 1, dataIndex, bitIndex + 1)

\* a variant of EmbedChannels that clears the two low bits of the channel
\* before it sets the payload bit: & 0xFC
RECURSIVE EmbedChannelsTwoBits(_, _, _, _, _, _)
EmbedChannelsTwoBits(pixels, data, i, channel, dataIndex, bitIndex) ==
    IF ~(channel < 3 /\ dataIndex < Len(data))
    THEN [pixels |-> pixels, dataIndex |-> dataIndex, bitIndex |-> bitIndex]
    ELSE LET pixelIndex == i + channel
             bit == BitAt(data[dataIndex + 1], 7 - bitIndex)
             written == [pixels EXCEPT ![pixelIndex + 1] = (@ \div 4) * 4 + bit]
         IN  IF bitIndex + 1 = 8
             THEN EmbedChannelsTwoBits(written, data, i, channel + 1, dataIndex + 1, 0)
             ELSE EmbedChannelsTwoBits(written, data, i, channel + 1, dataIndex, bitIndex + 1)

\* steganography.js:84-100: the channel loop of one pixel at byte offset i
RECURSIVE EmbedChannels(_, _, _, _, _, _)
EmbedChannels(pixels, data, i, channel, dataIndex, bitIndex) ==
    IF ~(channel < 3 /\ dataIndex < Len(data))
    THEN [pixels |-> pixels, dataIndex |-> dataIndex, bitIndex |-> bitIndex]
    ELSE LET pixelIndex == i + channel
             bit == BitAt(data[dataIndex + 1], 7 - bitIndex)
             written == [pixels EXCEPT ![pixelIndex + 1] = (@ \div 2) * 2 + bit]
         IN  IF bitIndex + 1 = 8
             THEN EmbedChannels(written, data, i, channel + 1, dataIndex + 1, 0)
             ELSE EmbedChannels(written, data, i, channel + 1, dataIndex, bitIndex + 1)

\* a variant of EmbedPixel that takes the buffer for packed RGB: three bytes
\* per pixel, no alpha byte to step over
EmbedPixelPacked(st, data, i) ==
    IF ~(i < Len(st.pixels) /\ st.dataIndex < Len(data))
    THEN st
    ELSE EmbedChannels(st.pixels, data, 3 * (i \div 4), 0, st.dataIndex, st.bitIndex)

\* steganography.js:82: one turn of the pixel loop, for the pixel at byte
\* offset i: the loop condition, then the body
EmbedPixel(st, data, i) ==
    IF ~(i < Len(st.pixels) /\ st.dataIndex < Len(data))
    THEN st
    ELSE EmbedChannels(st.pixels, data, i, 0, st.dataIndex, st.bitIndex)

\* steganography.js:82-101: the pixel loop over byte offsets 4*lo, ..., 4*(hi-1).
\* The turns run in order (the range is halved only to keep the evaluation
\* shallow); the loop ends as soon as dataIndex reaches the end of the data.
RECURSIVE EmbedPixels(_, _, _, _)
EmbedPixels(st, data, lo, hi) ==
    IF hi <= lo THEN st
    ELSE IF hi = lo + 1 THEN EmbedPixel(st, data, 4 * lo)
    ELSE LET mid == (lo + hi) \div 2
             left == EmbedPixels(st, data, lo, mid)
         IN  IF ~(left.dataIndex < Len(data)) THEN left
             ELSE EmbedPixels(left, data, mid, hi)

\* number of turns "for (i = 0; i < length; i += 4)" can take
Turns(length) == (length + 3) \div 4

EmbedTooSmall == "Image is too small to embed the encryption data"
EmbedPrefix == "Failed to embed data in image: "

\* a variant of embedDataInImage that asks for one pixel more than the payload
\* needs, and that has written the header before it finds the image too small
embedDataInImageEager(canvas, salt, iv, hmac, keyBytes) ==
    LET pixels == canvas.data
        dataToEmbed == dataToEmbedOf(salt, iv, hmac, keyBytes)
        availablePixels == Len(pixels) \div 4
        written == EmbedPixels([pixels |-> pixels, dataIndex |-> 0, bitIndex |-> 0],
                               dataToEmbed, 0, Turns(Len(pixels))).pixels
    IN  IF Len(dataToEmbed) * 8 >= 3 * availablePixels
        THEN [ok |-> FALSE, canvas |-> [canvas EXCEPT !.data = written],
              error |-> <<EmbedPrefix, EmbedTooSmall>>]
        ELSE [ok |-> TRUE, canvas |-> [canvas EXCEPT !.data = written], error |-> <<>>]

\* steganography.js:47-111.  requiredPixels = length * 8 / 3 is compared
\* as a real number: required > available  iff  length * 8 > 3 * available.
embedDataInImage(canvas, salt, iv, hmac, keyBytes) ==
    LET pixels == canvas.data
        dataToEmbed == dataToEmbedOf(salt, iv, hmac, keyBytes)
        availablePixels == Len(pixels) \div 4
    IN  IF Len(dataToEmbed) * 8 > 3 * availablePixels
        THEN [ok |-> FALSE, canvas |-> canvas,
              error |-> <<EmbedPrefix, EmbedTooSmall>>]
        ELSE [ok |-> TRUE,
              canvas |-> [canvas EXCEPT !.data =
                  EmbedPixels([pixels |-> pixels, dataIndex |-> 0, bitIndex |-> 0],
                              dataToEmbed, 0, Turns(Len(pixels))).pixels],
              error |-> <<>>]

\* steganography.js:131-140: the channel loop of one pixel at byte offset i
RECURSIVE ExtractChannels(_, _, _, _, _, _, _)
ExtractChannels(pixels, allBytes, totalBytes, i, channel, dataIndex, bitIndex) ==
    IF ~(channel < 3 /\ dataIndex < totalBytes)
    THEN [allBytes |-> allBytes, dataIndex |-> dataIndex, bitIndex |-> bitIndex]
    ELSE LET pixelIndex == i + channel
             bit == pixels[pixelIndex + 1] % 2
             read == [allBytes EXCEPT ![dataIndex + 1] = OrBit(@, bit, 7 - bitIndex)]
         IN  IF bitIndex + 1 = 8
             THEN ExtractChannels(pixels, read, totalBytes, i, channel + 1, dataIndex + 1, 0)
             ELSE ExtractChannels(pixels, read, totalBytes, i, channel + 1, dataIndex, bitIndex + 1)

\* steganography.js:130: one turn of the pixel loop, for the pixel at byte
\* offset i: the loop condition, then the body
ExtractPixel(pixels, st, totalBytes, i) ==
    IF ~(i < Len(pixels) /\ st.dataIndex < totalBytes)
    THEN st
    ELSE ExtractChannels(pixels, st.allBytes, totalBytes, i, 0, st.dataIndex, st.bitIndex)

\* steganography.js:130-141: the pixel loop over byte offsets 4*lo, ..., 4*(hi-1);
\* the loop ends as soon as dataIndex reaches totalBytes
RECURSIVE ExtractPixels(_, _, _, _, _)
ExtractPixels(pixels, st, totalBytes, lo, hi) ==
    IF hi <= lo THEN st
    ELSE IF hi = lo + 1 THEN ExtractPixel(pixels, st, totalBytes, 4 * lo)
    ELSE LET mid == (lo + hi) \div 2
             left == ExtractPixels(pixels, st, totalBytes, lo, mid)
         IN  IF ~(left.dataIndex < totalBytes) THEN left
             ELSE ExtractPixels(pixels, left, totalBytes, mid, hi)

\* Math.ceil(a / b) for positive integers
CeilDiv(a, b) == (a + b - 1) \div b

\* a variant of validateImageCapacity that wants more pixels than required: >
validateImageCapacityStrict(width, height) ==
    LET totalPixels == width * height
        totalDataSize == HEADER_SIZE + SALT_SIZE + IV_SIZE + KEY_SIZE + HMAC_SIZE
        requiredPixels == CeilDiv(totalDataSize * 8, 3)
    IN  totalPixels > requiredPixels

\* steganography.js:239-245
validateImageCapacity(width, height) ==
    LET totalPixels == width * height
        totalDataSize == HEADER_SIZE + SALT_SIZE + IV_SIZE + KEY_SIZE + HMAC_SIZE
        requiredPixels == CeilDiv(totalDataSize * 8, 3)
    IN  totalPixels >= requiredPixels

\* steganography.js:251-264; Math.ceil(Math.sqrt(requiredPixels * 1.5)) is the
\* least n with 2 * n * n >= 3 * requiredPixels
getRequiredImageSize ==
    LET totalDataSize == HEADER_SIZE + SALT_SIZE + IV_SIZE + KEY_SIZE + HMAC_SIZE
        requiredPixels == CeilDiv(totalDataSize * 8, 3)
        sideLength == CHOOSE n \in 0..(2 * requiredPixels) :
                          /\ 2 * n * n >= 3 * requiredPixels
                          /\ \A m \in 0..(n - 1) : 2 * m * m < 3 * requiredPixels
    IN  [width |-> sideLength, height |-> sideLength,
         minPixels |-> requiredPixels, dataBytes |-> totalDataSize]

ExtractBadLength == "Invalid data length - image may not contain valid encryption data"
ExtractPrefix == "Failed to extract data from image: "

NoFields == [salt |-> <<>>, iv |-> <<>>, keyBytes |-> <<>>, hmac |-> <<>>]

\* steganography.js:124-141: the bytes the bit stream of the canvas holds
allBytesOf(canvas) ==
    LET totalBytes == HEADER_SIZE + SALT_SIZE + IV_SIZE + KEY_SIZE + HMAC_SIZE
    IN  ExtractPixels(canvas.data,
                      [allBytes |-> Zeros(totalBytes), dataIndex |-> 0, bitIndex |-> 0],
                      totalBytes, 0, Turns(Len(canvas.data))).allBytes

\* steganography.js:118-164
extractDataFromImage(canvas) ==
    LET expectedDataLength == SALT_SIZE + IV_SIZE + KEY_SIZE + HMAC_SIZE
        allBytes == allBytesOf(canvas)
        dataLength == bytesToNumber(Slice(allBytes, 0, HEADER_SIZE))
        o1 == HEADER_SIZE
        o2 == o1 + SALT_SIZE
        o3 == o2 + IV_SIZE
        o4 == o3 + KEY_SIZE
    IN  IF dataLength # expectedDataLength
        THEN [ok |-> FALSE, fields |-> NoFields,
              error |-> <<ExtractPrefix, ExtractBadLength>>]
        ELSE [ok |-> TRUE,
              fields |-> [salt |-> Slice(allBytes, o1, o1 + SALT_SIZE),
                          iv |-> Slice(allBytes, o2, o2 + IV_SIZE),
                          keyBytes |-> Slice(allBytes, o3, o3 + KEY_SIZE),
                          hmac |-> Slice(allBytes, o4, o4 + HMAC_SIZE)],
              error |-> <<>>]


(***************************************************************************)
(* Part II.  The Web Crypto primitives behind crypto.js.                   *)
(* crypto.subtle is not code of this repository.  PBKDF2, AES-GCM and      *)
(* HMAC are modelled as ideal primitives on byte sequences: deterministic, *)
(* and collision-free on the modelled inputs (a result changes whenever    *)
(* one argument changes and the others stay), which is all the flows rely  *)
(* on.  Plaintexts are at most MaxPlainLen bytes long.                     *)
(***************************************************************************)

\* crypto.js (app.js:658-661)
SALT_LENGTH == 16
IV_LENGTH == 12
\* AES-GCM tagLength: 128 bits (app.js:765)
TAG_LENGTH == 16

\* longest plaintext of the model, in bytes
MaxPlainLen == 1

None == <<>>
Some(x) == <<x>>

\* arr, right-padded with zero bytes to n bytes and prefixed by its length
Padded(arr, n) == [i \in 1..n |-> IF i = 1 THEN Len(arr)
                                  ELSE IF i - 1 <= Len(arr) THEN arr[i - 1] ELSE 0]

\* the byte at 1-based position i of arr, cyclically
Cyc(arr, i) == arr[((i - 1) % Len(arr)) + 1]

Digits == {"0", "1", "2", "3", "4", "5", "6", "7", "8", "9"}

\* TextEncoder.encode of one character (app.js:683-684)
CharCode(c) ==
    CASE c = "0" -> 48 [] c = "1" -> 49 [] c = "2" -> 50 [] c = "3" -> 51
      [] c = "4" -> 52 [] c = "5" -> 53 [] c = "6" -> 54 [] c = "7" -> 55
      [] c = "8" -> 56 [] c = "9" -> 57 [] OTHER -> 97

\* app.js:680-709: PBKDF2(pin, salt) -> the raw bytes of a 256-bit AES key.
\* Ideal: the key determines the salt and the PIN.
deriveKeyFromPIN(pin, salt) ==
    LET pinBuffer == [i \in 1..Len(pin) |-> CharCode(pin[i])]
    IN  salt \o Padded(pinBuffer, KEY_SIZE - SALT_LENGTH)

\* app.js:721-724: the raw bytes of a key, in a new array
exportKey(key) == key

\* app.js:736-745: the key with the given raw bytes
importKey(keyBytes) == keyBytes

\* the 128-bit AES-GCM tag of a cipher body under key and iv
GcmTag(body, key, iv) ==
    LET b == Padded(body, TAG_LENGTH)
        n == Padded(iv, TAG_LENGTH)
    IN  [j \in 1..TAG_LENGTH |-> (key[j] + key[j + TAG_LENGTH] + n[j] + b[j]) % 256]

\* the AES-GCM key stream byte at position i
KeyStream(key, iv, i) == (Cyc(key, i) + Cyc(iv, i)) % 256

\* app.js:759-770: AES-256-GCM, the tag appended to the cipher body
encryptData(data, key, iv) ==
    LET body == [i \in 1..Len(data) |-> (data[i] + KeyStream(key, iv, i)) % 256]
    IN  body \o GcmTag(body, key, iv)

DecryptFailed == "Decryption failed - incorrect PIN or corrupted data"

\* a variant of decryptData that returns the deciphered buffer with the tag
\* still at its end
decryptDataKeepTag(encryptedData, key, iv) ==
    LET n == Len(encryptedData) - TAG_LENGTH
        body == SubSeq(encryptedData, 1, n)
        tag == SubSeq(encryptedData, n + 1, Len(encryptedData))
    IN  IF n < 0 \/ tag # GcmTag(body, key, iv)
        THEN [ok |-> FALSE, data |-> <<>>, error |-> <<DecryptFailed>>]
        ELSE [ok |-> TRUE,
              data |-> [i \in 1..n |-> (body[i] + 256 - KeyStream(key, iv, i)) % 256] \o tag,
              error |-> <<>>]

\* app.js:784-800: the plaintext, or the error of a tag that does not verify
decryptData(encryptedData, key, iv) ==
    LET n == Len(encryptedData) - TAG_LENGTH
        body == SubSeq(encryptedData, 1, n)
        tag == SubSeq(encryptedData, n + 1, Len(encryptedData))
    IN  IF n < 0 \/ tag # GcmTag(body, key, iv)
        THEN [ok |-> FALSE, data |-> <<>>, error |-> <<DecryptFailed>>]
        ELSE [ok |-> TRUE,
              data |-> [i \in 1..n |-> (body[i] + 256 - KeyStream(key, iv, i)) % 256],
              error |-> <<>>]

\* app.js:808-827: HMAC-SHA256 of data under the raw bytes of key
computeHMAC(data, key) ==
    LET d == Padded(data, HMAC_SIZE)
    IN  [j \in 1..HMAC_SIZE |-> (key[j] + d[j]) % 256]

\* a variant of verifyHMAC that compares the lengths only
verifyHMACLength(data, signature, key) == Len(computeHMAC(data, key)) = Len(signature)

\* app.js:841-861: crypto.subtle.verify recomputes and compares
verifyHMAC(data, signature, key) == computeHMAC(data, key) = signature

(***************************************************************************)
(* Part III.  The application (js/app.js, ui.js, validation.js).           *)
(* A handler runs to completion, except that an async handler gives way at *)
(* each await: handleEncrypt and handleDecrypt are cut into one action per *)
(* awaited stage.  An error message is the sequence of the string literals *)
(* it is concatenated from.                                                *)
(***************************************************************************)

\* A file or blob: its name (a sequence of parts), MIME type and bytes.
File(name, type, data) == [name |-> name, type |-> type, data |-> data]

\* PNG is lossless: the file of a canvas holds its dimensions and its bytes.
PngEncode(canvas) == <<canvas.width, canvas.height>> \o canvas.data
PngDecode(bytes) == Canvas(bytes[1], bytes[2], SubSeq(bytes, 3, Len(bytes)))

\* steganography.js:216-226
canvasToBlob(canvas) == File(<<>>, "image/png", PngEncode(canvas))

\* steganography.js:171-191: the image drawn on a canvas of its size
loadImageToCanvas(imageFile) == PngDecode(imageFile.data)

\* ---- validation.js ----

\* validation.js:31-36
WeakPatterns ==
    { <<"0", "0", "0", "0", "0", "0">>,
      <<"1", "1", "1", "1", "1", "1">>,
      <<"2", "2", "2", "2", "2", "2">>,
      <<"3", "3", "3", "3", "3", "3">>,
      <<"4", "4", "4", "4", "4", "4">>,
      <<"5", "5", "5", "5", "5", "5">>,
      <<"6", "6", "6", "6", "6", "6">>,
      <<"7", "7", "7", "7", "7", "7">>,
      <<"8", "8", "8", "8", "8", "8">>,
      <<"9", "9", "9", "9", "9", "9">>,
      <<"1", "2", "3", "4", "5", "6">>,
      <<"6", "5", "4", "3", "2", "1">>,
      <<"0", "1", "2", "3", "4", "5">>,
      <<"5", "4", "3", "2", "1", "0">>,
      <<"1", "1", "1", "2", "2", "2">>,
      <<"2", "2", "2", "3", "3", "3">>,
      <<"3", "3", "3", "4", "4", "4">> }

WeakWarning == "This PIN is weak. Consider using a more random combination."

\* a variant of validatePIN that turns weak PINs down
validatePINStrict(pin) ==
    IF Len(pin) = 0 THEN [valid |-> FALSE, error |-> "PIN is required", warning |-> ""]
    ELSE IF Len(pin) # 6
         THEN [valid |-> FALSE, error |-> "PIN must be exactly 6 digits", warning |-> ""]
    ELSE IF \E i \in 1..6 : pin[i] \notin Digits
         THEN [valid |-> FALSE, error |-> "PIN must contain only numbers", warning |-> ""]
    ELSE IF pin \in WeakPatterns
         THEN [valid |-> FALSE, error |-> WeakWarning, warning |-> WeakWarning]
    ELSE [valid |-> TRUE, error |-> "", warning |-> ""]

\* validation.js:13-46 for a string pin (a sequence of characters); a field the
\* returned object does not have is ""
validatePIN(pin) ==
    IF Len(pin) = 0 THEN [valid |-> FALSE, error |-> "PIN is required", warning |-> ""]
    ELSE IF Len(pin) # 6
         THEN [valid |-> FALSE, error |-> "PIN must be exactly 6 digits", warning |-> ""]
    ELSE IF \E i \in 1..6 : pin[i] \notin Digits
         THEN [valid |-> FALSE, error |-> "PIN must contain only numbers", warning |-> ""]
    ELSE IF pin \in WeakPatterns
         THEN [valid |-> TRUE, error |-> "", warning |-> WeakWarning]
    ELSE [valid |-> TRUE, error |-> "", warning |-> ""]

\* a JavaScript value handed over as a pin: a string with its characters, a
\* number with its decimal digits, or undefined
Str(chars) == [type |-> "string", chars |-> chars]
Num(digits) == [type |-> "number", chars |-> digits]
Undefined == [type |-> "undefined", chars |-> <<>>]

\* validation.js:13-46 for any value: !pin holds of undefined, "" and 0
validatePINValue(pin) ==
    IF pin.type = "undefined" \/ (pin.type = "string" /\ pin.chars = <<>>)
                              \/ (pin.type = "number" /\ pin.chars = <<"0">>)
    THEN [valid |-> FALSE, error |-> "PIN is required", warning |-> ""]
    ELSE IF pin.type # "string"
         THEN [valid |-> FALSE, error |-> "PIN must be a string", warning |-> ""]
    ELSE validatePIN(pin.chars)

\* validation.js:92-110; file is None or Some(file).  No file of the model
\* exceeds the 1 GB limit.
validateEncryptionFile(file) ==
    IF file = None THEN [valid |-> FALSE, error |-> "No file selected"]
    ELSE IF Len(file[1].data) = 0 THEN [valid |-> FALSE, error |-> "File is empty"]
    ELSE [valid |-> TRUE, error |-> ""]

\* validation.js:117-135
validateEncryptedFile(file) ==
    IF file = None THEN [valid |-> FALSE, error |-> "No encrypted file selected"]
    ELSE IF Len(file[1].data) = 0 THEN [valid |-> FALSE, error |-> "Encrypted file is empty"]
    ELSE [valid |-> TRUE, error |-> ""]

\* validation.js:142-174
validateKeyImage(file) ==
    IF file = None THEN [valid |-> FALSE, error |-> "No key image selected"]
    ELSE IF Len(file[1].data) = 0 THEN [valid |-> FALSE, error |-> "Key image is empty"]
    ELSE IF file[1].type \notin {"image/png", "image/jpeg"}
         THEN [valid |-> FALSE, error |-> "Selected file is not an image"]
    ELSE IF file[1].type # "image/png"
         THEN [valid |-> FALSE, error |-> "Key image must be PNG format"]
    ELSE [valid |-> TRUE, error |-> ""]

ErrorsOf(results) ==
    LET RECURSIVE Collect(_)
        Collect(rs) == IF rs = <<>> THEN <<>>
                       ELSE (IF Head(rs).valid THEN <<>> ELSE <<Head(rs).error>>)
                            \o Collect(Tail(rs))
    IN  Collect(results)

\* validation.js:275-292
validateEncryptionInputs(file, pin) ==
    LET errors == ErrorsOf(<<validateEncryptionFile(file), validatePIN(pin)>>)
    IN  [valid |-> errors = <<>>, errors |-> errors]

\* validation.js:245-267
validateDecryptionInputs(encryptedFile, keyImage, pin) ==
    LET errors == ErrorsOf(<<validateEncryptedFile(encryptedFile),
                             validateKeyImage(keyImage), validatePIN(pin)>>)
    IN  [valid |-> errors = <<>>, errors |-> errors]

\* validation.js:313-323
formatValidationErrors(errors) ==
    IF Len(errors) <= 1 THEN errors ELSE <<"Multiple errors:">> \o errors

\* ---- crypto.js: messages ----

EncryptPrefix == "Failed to encrypt file: "
DecryptPrefix == "Failed to decrypt file: "
DeriveFailed == "Failed to derive encryption key from PIN"
HmacFailed == "HMAC verification failed - data may be corrupted"

\* what encryptFile returns or throws
EncryptFileResult(ok, progress, draw, key, encrypted, hmac, error) ==
    [ok |-> ok, progress |-> progress, salt |-> draw.salt, iv |-> draw.iv, key |-> key,
     encrypted |-> encrypted, hmac |-> hmac, error |-> error]

\* a variant of encryptFile that keeps the salt and the IV of its first use in
\* a module-level cache instead of generating them in every call
encryptFileCached(file, pin, draw, failAt) ==
    LET cached == [salt |-> Zeros(SALT_LENGTH), iv |-> Zeros(IV_LENGTH)]
        key == deriveKeyFromPIN(pin, cached.salt)
        encryptedData == encryptData(file.data, key, cached.iv)
    IN  IF failAt \in 1..4
        THEN EncryptFileResult(FALSE, IF failAt = 1 THEN <<5>> ELSE <<5, 10, 30>>, cached,
                               IF failAt = 1 THEN <<>> ELSE key, <<>>, <<>>,
                               <<EncryptPrefix, "Failed to encrypt data">>)
        ELSE EncryptFileResult(TRUE, <<5, 10, 30, 80, 90, 100>>, cached, key,
                               encryptedData, computeHMAC(encryptedData, key), <<>>)

\* a variant of encryptFile that has reported every checkpoint, 100 included,
\* by the time a stage is found to have failed
encryptFileOptimistic(file, pin, draw, failAt) ==
    LET key == deriveKeyFromPIN(pin, draw.salt)
        encryptedData == encryptData(file.data, key, draw.iv)
    IN  IF failAt \in 1..4
        THEN EncryptFileResult(FALSE, <<5, 10, 30, 80, 90, 100>>, draw,
                               IF failAt = 1 THEN <<>> ELSE key, <<>>, <<>>,
                               <<EncryptPrefix, "Failed to encrypt data">>)
        ELSE EncryptFileResult(TRUE, <<5, 10, 30, 80, 90, 100>>, draw, key,
                               encryptedData, computeHMAC(encryptedData, key), <<>>)

\* app.js:875-913 as one call: file and pin as given, draw the salt and the IV
\* generateRandomBytes returns, failAt the awaited platform operation that
\* rejects (1 the key derivation, 2 the file read, 3 the cipher, 4 the MAC;
\* 0 none).  key is the key deriveKeyFromPIN returned, whatever follows.
encryptFile(file, pin, draw, failAt) ==
    LET key == deriveKeyFromPIN(pin, draw.salt)
        fileData == file.data
        encryptedData == encryptData(fileData, key, draw.iv)
        hmac == computeHMAC(encryptedData, key)
    IN  CASE failAt = 1 ->
               EncryptFileResult(FALSE, <<5>>, draw, <<>>, <<>>, <<>>,
                                 <<EncryptPrefix, DeriveFailed>>)
          [] failAt = 2 ->
               EncryptFileResult(FALSE, <<5, 10>>, draw, key, <<>>, <<>>,
                                 <<EncryptPrefix, "NotReadableError">>)
          [] failAt = 3 ->
               EncryptFileResult(FALSE, <<5, 10, 30>>, draw, key, <<>>, <<>>,
                                 <<EncryptPrefix, "Failed to encrypt data">>)
          [] failAt = 4 ->
               EncryptFileResult(FALSE, <<5, 10, 30, 80>>, draw, key, <<>>, <<>>,
                                 <<EncryptPrefix, "Failed to compute HMAC">>)
          [] OTHER ->
               EncryptFileResult(TRUE, <<5, 10, 30, 80, 90, 100>>, draw, key,
                                 encryptedData, hmac, <<>>)

\* what decryptFile returns or throws
DecryptFileResult(ok, progress, key, data, error) ==
    [ok |-> ok, progress |-> progress, key |-> key, data |-> data, error |-> error]

\* app.js:925-956 as one call; failAt the awaited platform operation that
\* rejects (1 the key derivation, 2 the blob read, 3 the cipher; 0 none).
\* key is the key deriveKeyFromPIN returned, whatever follows.
decryptFile(encryptedBlob, pin, salt, iv, expectedHMAC, failAt) ==
    LET key == deriveKeyFromPIN(pin, salt)
        encryptedData == encryptedBlob.data
        isValid == verifyHMAC(encryptedData, expectedHMAC, key)
        decrypted == decryptData(encryptedData, key, iv)
    IN  CASE failAt = 1 ->
               DecryptFileResult(FALSE, <<5>>, <<>>, <<>>, <<DecryptPrefix, DeriveFailed>>)
          [] failAt = 2 ->
               DecryptFileResult(FALSE, <<5, 15>>, key, <<>>,
                                 <<DecryptPrefix, "NotReadableError">>)
          [] ~isValid ->
               DecryptFileResult(FALSE, <<5, 15, 30>>, key, <<>>,
                                 <<DecryptPrefix, HmacFailed>>)
          [] failAt = 3 ->
               DecryptFileResult(FALSE, <<5, 15, 30, 50>>, key, <<>>,
                                 <<DecryptPrefix, DecryptFailed>>)
          [] ~decrypted.ok ->
               DecryptFileResult(FALSE, <<5, 15, 30, 50>>, key, <<>>,
                                 <<DecryptPrefix>> \o decrypted.error)
          [] OTHER ->
               DecryptFileResult(TRUE, <<5, 15, 30, 50, 90, 100>>, key, decrypted.data, <<>>)

\* which of the words getCryptoErrorMessage looks for a literal contains,
\* in lower case
Keywords(part) ==
    CASE part = DecryptPrefix -> {"decrypt"}
      [] part = DecryptFailed -> {"decrypt"}
      [] part = HmacFailed -> {"hmac"}
      [] part = "Failed to compute HMAC" -> {"hmac"}
      [] OTHER -> {}

Includes(message, word) == \E i \in 1..Len(message) : word \in Keywords(message[i])

MsgHttps == "This app requires HTTPS. Please access via https:// or localhost"
MsgUnsupported == "Your browser does not support the required encryption features"
MsgDecrypt == "Decryption failed - incorrect PIN or corrupted files"
MsgIntegrity == "File integrity check failed - the file may have been tampered with"
MsgGeneric == "An encryption error occurred. Please try again."

\* app.js:990-1007
getCryptoErrorMessage(message) ==
    IF Includes(message, "secure context") THEN MsgHttps
    ELSE IF Includes(message, "not supported") THEN MsgUnsupported
    ELSE IF Includes(message, "decrypt") THEN MsgDecrypt
    ELSE IF Includes(message, "hmac") THEN MsgIntegrity
    ELSE MsgGeneric

\* app.js:962-968: data.fill(0)
clearSensitiveData(data) == Zeros(Len(data))

\* ---- ui.js ----

\* ui.js:399-411
isEncryptionReady(st, pins) == st.encryptFile # None /\ Len(pins.encrypt) = 6
isDecryptionReady(st, pins) ==
    st.decryptFile # None /\ st.decryptImage # None /\ Len(pins.decrypt) = 6

\* ui.js:416-419 with setButtonEnabled (ui.js:339-344)
updateButtonStates(btns, st, pins) ==
    [btns EXCEPT !.encrypt.disabled = ~(isEncryptionReady(st, pins) /\ ~st.isProcessing),
                 !.decrypt.disabled = ~(isDecryptionReady(st, pins) /\ ~st.isProcessing)]

\* ui.js:351-368
setButtonLoading(btns, mode, loading) ==
    [btns EXCEPT ![mode] = [disabled |-> loading, loading |-> loading]]

\* ui.js:40-45
UIStateReset(st) ==
    [st EXCEPT !.encryptFile = None, !.decryptFile = None,
               !.decryptImage = None, !.isProcessing = FALSE]

\* ---- the inputs of the model ----

\* byte i of a test pattern: all zero, all 255, or a ramp
FillByte(fill, i) ==
    CASE fill = "zero" -> 0
      [] fill = "full" -> 255
      [] OTHER -> (7 * i + 3) % 256

\* n bytes of a test pattern
TestBytes(n, fill, shift) == [i \in 1..n |-> FillByte(fill, i + shift)]


\* handleEncrypt, handleDecrypt invocations per run
MaxEncrypts == 1
MaxDecrypts == 1
\* stages that fail for a reason of the platform (crypto.subtle, canvas, file read)
MaxFaults == 1
\* files altered by one bit between download and decryption
MaxTampers == 1
\* file selections and PIN entries per tab
MaxEncryptInputs == 2
MaxDecryptInputs == 3
\* ZIP downloads whose cleanup timer has not fired yet
MaxPendingTimers == 1
\* digits deleted from a complete PIN, per run
MaxErases == 1

\* the cover image: generateAbstractImage draws 1200 x 1200 opaque pixels
\* (imageGenerator.js:9-10); the codec reads and writes the first MinPixels
\* of them only, and the model keeps CoverWidth x CoverHeight
CoverWidth == 16
CoverHeight == 17

\* a file of every length up to MaxPlainLen
TestFiles ==
    { File(<<"f", ".txt">>, "text/plain", [i \in 1..n |-> (200 + 69 * i) % 256]) :
        n \in 0..MaxPlainLen }

TestPINs ==
    { <<"1", "2", "3", "4", "5", "6">>,
      <<"6", "5", "4", "3", "2", "1">>,
      <<"1", "2", "3">> }

\* what crypto.getRandomValues may return for a salt and an IV
RandomDraws ==
    { [salt |-> TestBytes(SALT_LENGTH, "ramp", 0), iv |-> TestBytes(IV_LENGTH, "ramp", 5)],
      [salt |-> TestBytes(SALT_LENGTH, "full", 0), iv |-> TestBytes(IV_LENGTH, "zero", 0)] }

\* an opaque cover: every alpha byte is 255
CoverArt ==
    Canvas(CoverWidth, CoverHeight,
           [i \in 1..(CoverWidth * CoverHeight * 4) |->
               IF i % 4 = 0 THEN 255 ELSE FillByte("ramp", i)])

\* a PNG that was never a key image
WrongImage == File(<<"photo.png">>, "image/png", PngEncode(CoverArt))

\* bit k (0 = most significant bit of byte 0) of bytes, flipped
FlipBit(bytes, k) ==
    LET i == (k \div 8) + 1
        s == 7 - (k % 8)
    IN  [bytes EXCEPT ![i] = IF BitAt(@, s) = 1 THEN @ - Pow2(s) ELSE @ + Pow2(s)]

\* where a PNG holds the colour byte that carries payload bit k
LsbIndex(k) == 2 + 4 * (k \div 3) + (k % 3) + 1

\* the least-significant bit that carries payload bit k of a PNG, flipped
FlipLsb(png, k) ==
    [png EXCEPT ![LsbIndex(k)] = IF @ % 2 = 1 THEN @ - 1 ELSE @ + 1]

\* the first and the last bit of the cipher body and of the tag
CipherFlips(data) ==
    LET n == Len(data) - TAG_LENGTH
    IN  {0, 8 * n - 1, 8 * n, 8 * Len(data) - 1}

\* the first and the last payload bit of the header and of each field
ImageFlips ==
    LET o1 == HEADER_SIZE
        o2 == o1 + SALT_SIZE
        o3 == o2 + IV_SIZE
        o4 == o3 + KEY_SIZE
        o5 == o4 + HMAC_SIZE
    IN  {8 * o : o \in {0, o1, o2, o3, o4}} \cup {8 * o - 1 : o \in {o1, o2, o3, o4, o5}}

\* ---- the state ----

VARIABLES
    uiState,            \* ui.js:11-18: encryptFile, decryptFile, decryptImage, isProcessing
    pinBoxes,           \* the text of the six PIN inputs of each tab (ui.getPIN)
    buttons,            \* encryptButton, decryptButton: disabled, loading
    modals,             \* the error modal and the success modal
    encryptedFileData,  \* window.encryptedFileData (app.js:370)
    enc,                \* the handleEncrypt invocation in flight: stage and locals
    dec,                \* the handleDecrypt invocation in flight: stage and locals
    timers,             \* pending setTimeout callbacks (app.js:450, app.js:510)
    saved,              \* what fileHandler.downloadBlob handed to the user
    secrets,            \* the byte arrays that hold raw key bytes
    log,                \* progress values reported and functions called, per handler
    env,                \* counters of the run
    history             \* the encryptions that succeeded

appVars == <<uiState, pinBoxes, buttons, modals, encryptedFileData, enc, dec,
             timers, saved, secrets, log, env, history>>

\* the state of the codec harness (Part IV)
VARIABLES
    cCanvas,    \* the canvas under test
    cBefore,    \* the canvas as it was before the latest embed call
    cPayload,   \* the fields handed to the latest embed call
    cEmbed,     \* outcome of the latest embed call: "none", "ok", "error"
    cEmbedErr,  \* the message of the error the latest embed call threw
    cEmbeds,    \* number of embed calls so far
    cExtract,   \* outcome of an extract call made on cCanvas as it is now
    cPaints     \* number of times the canvas was drawn on or cropped between calls

codecVars == <<cCanvas, cBefore, cPayload, cEmbed, cEmbedErr, cEmbeds, cExtract, cPaints>>

\* the state of the direct callers (Part VI)
VARIABLES
    lib,        \* the latest call of an exported function: its arguments and result
    libCalls    \* number of such calls so far

libVars == <<lib, libCalls>>

harnessVars == <<codecVars, libVars>>

vars == <<appVars, codecVars, libVars>>

NoExtract == [done |-> FALSE, ok |-> FALSE, fields |-> NoFields, error |-> <<>>]

NoValidation == [valid |-> FALSE, error |-> "", warning |-> ""]

\* no exported function called yet.  drawn: what the random source has
\* returned so far; used: the salt, IV and key of the earlier encryptFile calls
\* that reached the cipher
NoCall ==
    [fn |-> "none", pin |-> Undefined, salt |-> <<>>, iv |-> <<>>, input |-> <<>>,
     hmac |-> <<>>, ok |-> FALSE, validation |-> NoValidation, key |-> <<>>,
     output |-> <<>>, progress |-> <<>>, error |-> <<>>,
     drawn |-> {}, used |-> {}]

LibIdle == lib = NoCall /\ libCalls = 0

\* the codec harness at rest
CodecIdle ==
    /\ cCanvas = Canvas(1, 1, Zeros(4))
    /\ cBefore = cCanvas
    /\ cPayload = NoFields
    /\ cEmbed = "none"
    /\ cEmbedErr = <<>>
    /\ cEmbeds = 0
    /\ cExtract = NoExtract
    /\ cPaints = 0

IdleEnc ==
    [pc |-> "idle", file |-> None, pin |-> <<>>, salt |-> <<>>, iv |-> <<>>,
     key |-> <<>>, fileData |-> <<>>, encryptedData |-> <<>>, hmac |-> <<>>,
     canvas |-> None, keyBytes |-> <<>>, outcome |-> "none", error |-> <<>>]

IdleDec ==
    [pc |-> "idle", file |-> None, image |-> None, pin |-> <<>>,
     extracted |-> NoFields, key |-> <<>>, encryptedData |-> <<>>,
     outcome |-> "none", error |-> <<>>]

NoLog == [progress |-> <<>>, calls |-> <<>>]

InitApp ==
    /\ uiState = [encryptFile |-> None, decryptFile |-> None,
                  decryptImage |-> None, isProcessing |-> FALSE]
    /\ pinBoxes = [encrypt |-> <<>>, decrypt |-> <<>>]
    /\ buttons = [encrypt |-> [disabled |-> TRUE, loading |-> FALSE],
                  decrypt |-> [disabled |-> TRUE, loading |-> FALSE]]
    /\ modals = [errorShown |-> FALSE, error |-> "", successShown |-> FALSE]
    /\ encryptedFileData = None
    /\ enc = IdleEnc
    /\ dec = IdleDec
    /\ timers = [decryptReset |-> 0, zipCleanup |-> 0]
    /\ saved = [encrypted |-> None, keyImage |-> None, zip |-> None, decrypted |-> None]
    /\ secrets = [encKeyBytes |-> None, encMacKey |-> None,
                  decKeyBytes |-> None, decMacKey |-> None]
    /\ log = [encrypt |-> NoLog, decrypt |-> NoLog, dropped |-> None]
    /\ env = [encrypts |-> 0, decrypts |-> 0, faults |-> 0, tampers |-> 0,
              encryptInputs |-> 0, decryptInputs |-> 0, erases |-> 0]
    /\ history = {}

Init == InitApp /\ CodecIdle /\ LibIdle

\* the progress callback (app.js:350-353, app.js:433-436) and the call record
Report(l, mode, values, calls) ==
    [l EXCEPT ![mode].progress = @ \o values, ![mode].calls = @ \o calls]

\* a stage fails for a reason of the platform
Fault == /\ env.faults < MaxFaults
         /\ env' = [env EXCEPT !.faults = @ + 1]

\* ---- file selection and PIN entry ----

\* app.js:158-170
HandleEncryptFileSelected ==
    /\ env.encryptInputs < MaxEncryptInputs
    /\ \E file \in TestFiles :
        LET validationResult == validateEncryptionFile(Some(file))
        IN  /\ log' = [log EXCEPT !.dropped = Some(file)]
            /\ IF ~validationResult.valid
               THEN /\ modals' = [modals EXCEPT !.errorShown = TRUE,
                                                !.error = validationResult.error]
                    /\ UNCHANGED <<uiState, buttons>>
               ELSE /\ uiState' = [uiState EXCEPT !.encryptFile = Some(file)]
                    /\ buttons' = updateButtonStates(buttons, uiState', pinBoxes)
                    /\ UNCHANGED modals
    /\ env' = [env EXCEPT !.encryptInputs = @ + 1]
    /\ UNCHANGED <<pinBoxes, encryptedFileData, enc, dec, timers, saved, secrets, history>>
    /\ UNCHANGED harnessVars

\* app.js:230-252, 283-297: the six boxes of a tab come to hold pin; the button
\* states are refreshed when the sixth box completes the PIN
PINInput(mode) ==
    /\ IF mode = "encrypt" THEN env.encryptInputs < MaxEncryptInputs
                           ELSE env.decryptInputs < MaxDecryptInputs
    /\ \E pin \in TestPINs :
        /\ pinBoxes' = [pinBoxes EXCEPT ![mode] = pin]
        /\ buttons' = IF Len(pin) = 6 THEN updateButtonStates(buttons, uiState, pinBoxes')
                                      ELSE buttons
    /\ env' = IF mode = "encrypt" THEN [env EXCEPT !.encryptInputs = @ + 1]
                                  ELSE [env EXCEPT !.decryptInputs = @ + 1]
    /\ UNCHANGED <<uiState, modals, encryptedFileData, enc, dec, timers, saved,
                   secrets, log, history>>
    /\ UNCHANGED harnessVars

\* app.js:230-237: the digit of the sixth box of a complete PIN is deleted while
\* the button of the tab is enabled and before it is first clicked; the input
\* event of a box that holds no digit returns before the button states are
\* refreshed
PINErase(mode) ==
    /\ env.erases < MaxErases
    /\ Len(pinBoxes[mode]) = 6
    /\ ~buttons[mode].disabled
    /\ IF mode = "encrypt" THEN env.encrypts = 0 ELSE env.decrypts = 0
    /\ pinBoxes' = [pinBoxes EXCEPT ![mode] = SubSeq(@, 1, 5)]
    /\ env' = [env EXCEPT !.erases = @ + 1]
    /\ UNCHANGED <<uiState, buttons, modals, encryptedFileData, enc, dec, timers, saved,
                   secrets, log, history>>
    /\ UNCHANGED harnessVars

\* the encrypted files the user holds: downloaded alone or inside the ZIP
HeldCiphertexts ==
    {saved.encrypted[i] : i \in 1..Len(saved.encrypted)}
    \cup {saved.zip[i][1] : i \in 1..Len(saved.zip)}

\* the key images the user holds
HeldImages ==
    {saved.keyImage[i] : i \in 1..Len(saved.keyImage)}
    \cup {saved.zip[i][2] : i \in 1..Len(saved.zip)}

\* app.js:175-191; the file is one the user holds, as downloaded or with one
\* bit flipped since
HandleDecryptFileSelected ==
    /\ env.decryptInputs < MaxDecryptInputs
    /\ \E held \in HeldCiphertexts :
        \E file \in {held} \cup (IF env.tampers < MaxTampers
                                 THEN {[held EXCEPT !.data = FlipBit(@, k)] :
                                          k \in CipherFlips(held.data)}
                                 ELSE {}) :
            /\ IF ~validateEncryptedFile(Some(file)).valid
               THEN /\ modals' = [modals EXCEPT !.errorShown = TRUE,
                                   !.error = validateEncryptedFile(Some(file)).error]
                    /\ UNCHANGED uiState
               ELSE /\ uiState' = [uiState EXCEPT !.decryptFile = Some(file)]
                    /\ UNCHANGED modals
            /\ env' = [env EXCEPT !.decryptInputs = @ + 1,
                                  !.tampers = IF file = held THEN @ ELSE @ + 1]
    /\ buttons' = updateButtonStates(buttons, uiState', pinBoxes)
    /\ UNCHANGED <<pinBoxes, encryptedFileData, enc, dec, timers, saved,
                   secrets, log, history>>
    /\ UNCHANGED harnessVars

\* app.js:196-212; the image is a key image the user holds, as downloaded or
\* with one payload bit flipped since, or a PNG that is no key image
HandleDecryptImageSelected ==
    /\ env.decryptInputs < MaxDecryptInputs
    /\ \/ \E held \in HeldImages :
            \E file \in {held} \cup (IF env.tampers < MaxTampers
                                     THEN {[held EXCEPT !.data = FlipLsb(@, k)] :
                                              k \in ImageFlips}
                                     ELSE {}) :
                /\ IF ~validateKeyImage(Some(file)).valid
                   THEN /\ modals' = [modals EXCEPT !.errorShown = TRUE,
                                       !.error = validateKeyImage(Some(file)).error]
                        /\ UNCHANGED uiState
                   ELSE /\ uiState' = [uiState EXCEPT !.decryptImage = Some(file)]
                        /\ UNCHANGED modals
                /\ env' = [env EXCEPT !.decryptInputs = @ + 1,
                                      !.tampers = IF file = held THEN @ ELSE @ + 1]
       \/ /\ validateKeyImage(Some(WrongImage)).valid
          /\ uiState' = [uiState EXCEPT !.decryptImage = Some(WrongImage)]
          /\ UNCHANGED modals
          /\ env' = [env EXCEPT !.decryptInputs = @ + 1]
    /\ buttons' = updateButtonStates(buttons, uiState', pinBoxes)
    /\ UNCHANGED <<pinBoxes, encryptedFileData, enc, dec, timers, saved,
                   secrets, log, history>>
    /\ UNCHANGED harnessVars

\* ---- handleEncrypt (app.js:329-395) with encryptFile (app.js:875-913) ----

\* handleEncrypt has returned: its locals are gone; the record keeps what it
\* was called with and how it ended
EncryptReturned(call, outcome, message) ==
    [IdleEnc EXCEPT !.file = call.file, !.pin = call.pin,
                    !.outcome = outcome, !.error = message]

\* app.js:385-394: the catch block and the finally block
\* a variant of EncryptCatch for a handler without a finally block: the error
\* is shown and the handler returns
EncryptCatchOnly(message) ==
    /\ modals' = [modals EXCEPT !.errorShown = TRUE, !.error = getCryptoErrorMessage(message)]
    /\ enc' = [IdleEnc EXCEPT !.file = enc.file, !.pin = enc.pin,
                              !.outcome = "error", !.error = message]
    /\ UNCHANGED <<uiState, buttons>>

EncryptCatch(message) ==
    /\ modals' = [modals EXCEPT !.errorShown = TRUE, !.error = getCryptoErrorMessage(message)]
    /\ uiState' = [uiState EXCEPT !.isProcessing = FALSE]
    /\ buttons' = updateButtonStates(setButtonLoading(buttons, "encrypt", FALSE),
                                     uiState', pinBoxes)
    /\ enc' = EncryptReturned(enc, "error", message)

\* a variant of HandleEncrypt that draws the salt and the IV before it looks at
\* the result of the validation
HandleEncryptDrawFirst ==
    /\ ~buttons.encrypt.disabled
    /\ enc.pc = "idle"
    /\ env.encrypts < MaxEncrypts
    /\ env' = [env EXCEPT !.encrypts = @ + 1]
    /\ LET file == uiState.encryptFile
           pin == pinBoxes.encrypt
           inputValidation == validateEncryptionInputs(file, pin)
       IN  IF ~inputValidation.valid
           THEN /\ modals' = [modals EXCEPT !.errorShown = TRUE, !.error =
                              getCryptoErrorMessage(formatValidationErrors(inputValidation.errors))]
                /\ uiState' = [uiState EXCEPT !.isProcessing = FALSE]
                /\ buttons' = updateButtonStates(setButtonLoading(buttons, "encrypt", FALSE),
                                                 uiState', pinBoxes)
                /\ enc' = EncryptReturned([file |-> file, pin |-> pin], "error",
                                          formatValidationErrors(inputValidation.errors))
                /\ log' = [log EXCEPT !.encrypt =
                              [progress |-> <<>>,
                               calls |-> <<"generateRandomBytes", "generateRandomBytes">>]]
           ELSE /\ \E draw \in RandomDraws :
                     enc' = [IdleEnc EXCEPT !.pc = "derive", !.file = file, !.pin = pin,
                                            !.salt = draw.salt, !.iv = draw.iv]
                /\ uiState' = [uiState EXCEPT !.isProcessing = TRUE]
                /\ buttons' = updateButtonStates(setButtonLoading(buttons, "encrypt", TRUE),
                                                 uiState', pinBoxes)
                /\ log' = [log EXCEPT !.encrypt =
                              [progress |-> <<5>>,
                               calls |-> <<"generateRandomBytes", "generateRandomBytes",
                                           "deriveKeyFromPIN">>]]
                /\ UNCHANGED modals
    /\ UNCHANGED <<pinBoxes, encryptedFileData, dec, timers, saved, secrets, history>>
    /\ UNCHANGED harnessVars

\* app.js:329-350, 878-883: the click, the validation, the salt and the IV
HandleEncryptUpTo(limit) ==
    /\ ~buttons.encrypt.disabled
    /\ enc.pc = "idle"
    /\ env.encrypts < limit
    /\ env' = [env EXCEPT !.encrypts = @ + 1]
    /\ LET file == uiState.encryptFile
           pin == pinBoxes.encrypt
           inputValidation == validateEncryptionInputs(file, pin)
       IN  IF ~inputValidation.valid
           THEN /\ modals' = [modals EXCEPT !.errorShown = TRUE, !.error =
                              getCryptoErrorMessage(formatValidationErrors(inputValidation.errors))]
                /\ uiState' = [uiState EXCEPT !.isProcessing = FALSE]
                /\ buttons' = updateButtonStates(setButtonLoading(buttons, "encrypt", FALSE),
                                                 uiState', pinBoxes)
                /\ enc' = EncryptReturned([file |-> file, pin |-> pin], "error",
                                          formatValidationErrors(inputValidation.errors))
                /\ log' = [log EXCEPT !.encrypt = NoLog]
           ELSE /\ \E draw \in RandomDraws :
                     enc' = [IdleEnc EXCEPT !.pc = "derive", !.file = file, !.pin = pin,
                                            !.salt = draw.salt, !.iv = draw.iv]
                /\ uiState' = [uiState EXCEPT !.isProcessing = TRUE]
                /\ buttons' = updateButtonStates(setButtonLoading(buttons, "encrypt", TRUE),
                                                 uiState', pinBoxes)
                /\ log' = [log EXCEPT !.encrypt =
                              [progress |-> <<5>>,
                               calls |-> <<"generateRandomBytes", "generateRandomBytes",
                                           "deriveKeyFromPIN">>]]
                /\ UNCHANGED modals
    /\ UNCHANGED <<pinBoxes, encryptedFileData, dec, timers, saved, secrets, history>>
    /\ UNCHANGED harnessVars

\* the encrypt button clicked, in a session of at most MaxEncrypts encryptions
HandleEncrypt == HandleEncryptUpTo(MaxEncrypts)

\* app.js:883-887
EncryptDerive ==
    /\ enc.pc = "derive"
    /\ \/ /\ enc' = [enc EXCEPT !.pc = "read", !.key = deriveKeyFromPIN(enc.pin, enc.salt)]
          /\ log' = Report(log, "encrypt", <<10>>, <<"arrayBuffer">>)
          /\ UNCHANGED <<uiState, buttons, modals, env>>
       \/ /\ Fault
          /\ EncryptCatch(<<EncryptPrefix, DeriveFailed>>)
          /\ UNCHANGED log
    /\ UNCHANGED <<pinBoxes, encryptedFileData, dec, timers, saved, secrets, history>>
    /\ UNCHANGED harnessVars

\* app.js:887-891
EncryptRead ==
    /\ enc.pc = "read"
    /\ \/ /\ enc' = [enc EXCEPT !.pc = "cipher", !.fileData = enc.file[1].data]
          /\ log' = Report(log, "encrypt", <<30>>, <<"encryptData">>)
          /\ UNCHANGED <<uiState, buttons, modals, env>>
       \/ /\ Fault
          /\ EncryptCatch(<<EncryptPrefix, "NotReadableError">>)
          /\ UNCHANGED log
    /\ UNCHANGED <<pinBoxes, encryptedFileData, dec, timers, saved, secrets, history>>
    /\ UNCHANGED harnessVars

\* app.js:891-895
EncryptCipher ==
    /\ enc.pc = "cipher"
    /\ \/ /\ enc' = [enc EXCEPT !.pc = "mac",
                                !.encryptedData = encryptData(enc.fileData, enc.key, enc.iv)]
          /\ log' = Report(log, "encrypt", <<80>>, <<"computeHMAC">>)
          /\ UNCHANGED <<uiState, buttons, modals, env>>
       \/ /\ Fault
          /\ EncryptCatch(<<EncryptPrefix, "Failed to encrypt data">>)
          /\ UNCHANGED log
    /\ UNCHANGED <<pinBoxes, encryptedFileData, dec, timers, saved, secrets, history>>
    /\ UNCHANGED harnessVars

\* app.js:895-908 and 357: computeHMAC exports the key into exportedKey
\* (app.js:811), which it does not clear
EncryptMac ==
    /\ enc.pc = "mac"
    /\ \/ /\ enc' = [enc EXCEPT !.pc = "image",
                                !.hmac = computeHMAC(enc.encryptedData, enc.key)]
          /\ secrets' = [secrets EXCEPT !.encMacKey = Some(exportKey(enc.key))]
          /\ log' = Report(log, "encrypt", <<90, 100>>, <<"generateAbstractImage">>)
          /\ UNCHANGED <<uiState, buttons, modals, env>>
       \/ /\ Fault
          /\ EncryptCatch(<<EncryptPrefix, "Failed to compute HMAC">>)
          /\ UNCHANGED <<log, secrets>>
    /\ UNCHANGED <<pinBoxes, encryptedFileData, dec, timers, saved, history>>
    /\ UNCHANGED harnessVars

\* app.js:357-360
EncryptImage ==
    /\ enc.pc = "image"
    /\ \/ /\ enc' = [enc EXCEPT !.pc = "export", !.canvas = Some(CoverArt)]
          /\ log' = Report(log, "encrypt", <<>>, <<"exportKey">>)
          /\ UNCHANGED <<uiState, buttons, modals, env>>
       \/ /\ Fault
          /\ EncryptCatch(<<"Failed to generate abstract image: ", "no 2d context">>)
          /\ UNCHANGED log
    /\ UNCHANGED <<pinBoxes, encryptedFileData, dec, timers, saved, secrets, history>>
    /\ UNCHANGED harnessVars

\* app.js:360-367: the key is exported into keyBytes and the payload is
\* embedded; an embedding that throws leaves keyBytes as it is
EncryptExport ==
    /\ enc.pc = "export"
    /\ \/ LET keyBytes == exportKey(enc.key)
              embedded == embedDataInImage(enc.canvas[1], enc.salt, enc.iv, enc.hmac, keyBytes)
          IN  /\ secrets' = [secrets EXCEPT !.encKeyBytes = Some(keyBytes)]
              /\ IF embedded.ok
                 THEN /\ enc' = [enc EXCEPT !.pc = "blob", !.keyBytes = keyBytes,
                                            !.canvas = Some(embedded.canvas)]
                      /\ log' = Report(log, "encrypt", <<>>,
                                       <<"embedDataInImage", "canvasToBlob">>)
                      /\ UNCHANGED <<uiState, buttons, modals>>
                 ELSE /\ EncryptCatch(embedded.error)
                      /\ log' = Report(log, "encrypt", <<>>, <<"embedDataInImage">>)
              /\ UNCHANGED env
       \/ /\ Fault
          /\ EncryptCatch(<<"Failed to export key">>)
          /\ UNCHANGED <<log, secrets>>
    /\ UNCHANGED <<pinBoxes, encryptedFileData, dec, timers, saved, history>>
    /\ UNCHANGED harnessVars

\* app.js:367-394: the blob, window.encryptedFileData, the success modal,
\* clearSensitiveData(keyBytes), the finally block
EncryptBlob ==
    /\ enc.pc = "blob"
    /\ \/ LET encryptedBlob == File(<<>>, "application/octet-stream", enc.encryptedData)
              imageBlob == canvasToBlob(enc.canvas[1])
          IN  /\ encryptedFileData' = Some([encrypted |-> encryptedBlob, image |-> imageBlob,
                                            originalFilename |-> enc.file[1].name])
              /\ history' = history \cup
                     {[plain |-> enc.fileData, pin |-> enc.pin, key |-> enc.key,
                       salt |-> enc.salt, iv |-> enc.iv, hmac |-> enc.hmac,
                       encrypted |-> encryptedBlob.data, image |-> imageBlob.data]}
              /\ modals' = [modals EXCEPT !.successShown = TRUE]
              /\ secrets' = [secrets EXCEPT !.encKeyBytes = Some(clearSensitiveData(enc.keyBytes))]
              /\ uiState' = [uiState EXCEPT !.isProcessing = FALSE]
              /\ buttons' = updateButtonStates(setButtonLoading(buttons, "encrypt", FALSE),
                                               uiState', pinBoxes)
              /\ enc' = EncryptReturned(enc, "ok", <<>>)
              /\ UNCHANGED env
       \/ /\ Fault
          /\ EncryptCatch(<<"Failed to create blob from canvas">>)
          /\ UNCHANGED <<encryptedFileData, history, secrets>>
    /\ UNCHANGED <<pinBoxes, dec, timers, saved, log>>
    /\ UNCHANGED harnessVars

\* ---- fileHandler.js ----

\* a file name is a sequence of parts ("a.txt", ".encrypted"); the parts that
\* are a character fileHandler.sanitizeFilename replaces
UnsafeParts == {"<", ">", ":", "/", "|", "?", "*"}

\* fileHandler.js:51-56
sanitizeFilename(filename) ==
    [i \in 1..Len(filename) |-> IF filename[i] \in UnsafeParts THEN "_" ELSE filename[i]]

\* String.prototype.replace(part, ''): the first occurrence is removed
RemoveFirst(filename, part) ==
    IF \E i \in 1..Len(filename) : filename[i] = part
    THEN LET i == CHOOSE i \in 1..Len(filename) :
                     /\ filename[i] = part
                     /\ \A j \in 1..(i - 1) : filename[j] # part
         IN  SubSeq(filename, 1, i - 1) \o SubSeq(filename, i + 1, Len(filename))
    ELSE filename

\* fileHandler.js:132-146: what the browser saves
downloadBlob(blob, filename) == File(sanitizeFilename(filename), blob.type, blob.data)

\* ---- handleDecrypt (app.js:400-471) with decryptFile (app.js:925-956) ----

\* handleDecrypt has returned: its locals are gone; the record keeps what it
\* was called with and how it ended
DecryptReturned(call, outcome, message) ==
    [IdleDec EXCEPT !.file = call.file, !.image = call.image, !.pin = call.pin,
                    !.outcome = outcome, !.error = message]

\* app.js:461-470: the catch block and the finally block
DecryptCatch(message) ==
    /\ modals' = [modals EXCEPT !.errorShown = TRUE, !.error = getCryptoErrorMessage(message)]
    /\ uiState' = [uiState EXCEPT !.isProcessing = FALSE]
    /\ buttons' = updateButtonStates(setButtonLoading(buttons, "decrypt", FALSE),
                                     uiState', pinBoxes)
    /\ dec' = DecryptReturned(dec, "error", message)

\* app.js:400-422: the click and the validation
HandleDecrypt ==
    /\ ~buttons.decrypt.disabled
    /\ dec.pc = "idle"
    /\ env.decrypts < MaxDecrypts
    /\ env' = [env EXCEPT !.decrypts = @ + 1]
    /\ LET encryptedFile == uiState.decryptFile
           keyImage == uiState.decryptImage
           pin == pinBoxes.decrypt
           inputValidation == validateDecryptionInputs(encryptedFile, keyImage, pin)
       IN  IF ~inputValidation.valid
           THEN /\ modals' = [modals EXCEPT !.errorShown = TRUE, !.error =
                              getCryptoErrorMessage(formatValidationErrors(inputValidation.errors))]
                /\ uiState' = [uiState EXCEPT !.isProcessing = FALSE]
                /\ buttons' = updateButtonStates(setButtonLoading(buttons, "decrypt", FALSE),
                                                 uiState', pinBoxes)
                /\ dec' = DecryptReturned([file |-> encryptedFile, image |-> keyImage,
                                           pin |-> pin], "error",
                                          formatValidationErrors(inputValidation.errors))
                /\ log' = [log EXCEPT !.decrypt = NoLog]
           ELSE /\ dec' = [IdleDec EXCEPT !.pc = "load", !.file = encryptedFile,
                                          !.image = keyImage, !.pin = pin]
                /\ uiState' = [uiState EXCEPT !.isProcessing = TRUE]
                /\ buttons' = updateButtonStates(setButtonLoading(buttons, "decrypt", TRUE),
                                                 uiState', pinBoxes)
                /\ log' = [log EXCEPT !.decrypt =
                              [progress |-> <<>>, calls |-> <<"loadImageToCanvas">>]]
                /\ UNCHANGED modals
    /\ UNCHANGED <<pinBoxes, encryptedFileData, enc, timers, saved, secrets, history>>
    /\ UNCHANGED harnessVars

\* a variant of DecryptLoad that goes on to decryptFile with whatever was
\* extracted, whether or not the header matched
DecryptLoadUngated ==
    /\ dec.pc = "load"
    /\ LET extractedData == extractDataFromImage(loadImageToCanvas(dec.image[1]))
       IN  /\ dec' = [dec EXCEPT !.pc = "derive", !.extracted = extractedData.fields]
           /\ secrets' = [secrets EXCEPT
                             !.decKeyBytes = Some(extractedData.fields.keyBytes)]
           /\ log' = Report(log, "decrypt", <<5>>,
                            <<"extractDataFromImage", "deriveKeyFromPIN">>)
    /\ UNCHANGED <<uiState, buttons, modals, env, pinBoxes, encryptedFileData, enc,
                   timers, saved, history>>
    /\ UNCHANGED harnessVars

\* app.js:422-437, 928-930: the image is drawn, the payload is extracted,
\* decryptFile starts
DecryptLoad ==
    /\ dec.pc = "load"
    /\ \/ LET canvas == loadImageToCanvas(dec.image[1])
              extractedData == extractDataFromImage(canvas)
          IN  IF extractedData.ok
              THEN /\ dec' = [dec EXCEPT !.pc = "derive", !.extracted = extractedData.fields]
                   /\ secrets' = [secrets EXCEPT
                                     !.decKeyBytes = Some(extractedData.fields.keyBytes)]
                   /\ log' = Report(log, "decrypt", <<5>>,
                                    <<"extractDataFromImage", "deriveKeyFromPIN">>)
                   /\ UNCHANGED <<uiState, buttons, modals, env>>
              ELSE /\ DecryptCatch(extractedData.error)
                   /\ log' = Report(log, "decrypt", <<>>, <<"extractDataFromImage">>)
                   /\ UNCHANGED <<secrets, env>>
       \/ /\ Fault
          /\ DecryptCatch(<<"Failed to load image">>)
          /\ UNCHANGED <<log, secrets>>
    /\ UNCHANGED <<pinBoxes, encryptedFileData, enc, timers, saved, history>>
    /\ UNCHANGED harnessVars

\* app.js:930-933: the key comes from the PIN and the extracted salt
DecryptDerive ==
    /\ dec.pc = "derive"
    /\ \/ /\ dec' = [dec EXCEPT !.pc = "read",
                                !.key = deriveKeyFromPIN(dec.pin, dec.extracted.salt)]
          /\ log' = Report(log, "decrypt", <<15>>, <<"arrayBuffer">>)
          /\ UNCHANGED <<uiState, buttons, modals, env>>
       \/ /\ Fault
          /\ DecryptCatch(<<DecryptPrefix, DeriveFailed>>)
          /\ UNCHANGED log
    /\ UNCHANGED <<pinBoxes, encryptedFileData, enc, timers, saved, secrets, history>>
    /\ UNCHANGED harnessVars

\* a variant of DecryptRead that hands the bytes it read to decryptData
\* first and leaves the MAC for later
DecryptReadThenCipher ==
    /\ dec.pc = "read"
    /\ dec' = [dec EXCEPT !.pc = "cipher", !.encryptedData = dec.file[1].data]
    /\ log' = Report(log, "decrypt", <<30>>, <<"decryptData">>)
    /\ UNCHANGED <<uiState, buttons, modals, env, pinBoxes, encryptedFileData, enc,
                   timers, saved, secrets, history>>
    /\ UNCHANGED harnessVars

\* app.js:933-937
DecryptRead ==
    /\ dec.pc = "read"
    /\ \/ /\ dec' = [dec EXCEPT !.pc = "verify", !.encryptedData = dec.file[1].data]
          /\ log' = Report(log, "decrypt", <<30>>, <<"verifyHMAC">>)
          /\ UNCHANGED <<uiState, buttons, modals, env>>
       \/ /\ Fault
          /\ DecryptCatch(<<DecryptPrefix, "NotReadableError">>)
          /\ UNCHANGED log
    /\ UNCHANGED <<pinBoxes, encryptedFileData, enc, timers, saved, secrets, history>>
    /\ UNCHANGED harnessVars

\* a variant of DecryptVerify that reports 50 and calls decryptData before it
\* looks at the result of verifyHMAC
DecryptVerifyAfter ==
    /\ dec.pc = "verify"
    /\ secrets' = [secrets EXCEPT !.decMacKey = Some(exportKey(dec.key))]
    /\ dec' = [dec EXCEPT !.pc = "cipher"]
    /\ log' = Report(log, "decrypt", <<50>>, <<"decryptData">>)
    /\ UNCHANGED <<uiState, buttons, modals, env, pinBoxes, encryptedFileData, enc,
                   timers, saved, history>>
    /\ UNCHANGED harnessVars

\* app.js:937-943: verifyHMAC exports the key into exportedKey (app.js:844),
\* which it does not clear; a failure inside verifyHMAC makes it return false
\* (app.js:862-865)
DecryptVerify ==
    /\ dec.pc = "verify"
    /\ \/ LET isValid == verifyHMAC(dec.encryptedData, dec.extracted.hmac, dec.key)
          IN  /\ secrets' = [secrets EXCEPT !.decMacKey = Some(exportKey(dec.key))]
              /\ IF ~isValid
                 THEN /\ DecryptCatch(<<DecryptPrefix, HmacFailed>>)
                      /\ UNCHANGED log
                 ELSE /\ dec' = [dec EXCEPT !.pc = "cipher"]
                      /\ log' = Report(log, "decrypt", <<50>>, <<"decryptData">>)
                      /\ UNCHANGED <<uiState, buttons, modals>>
              /\ UNCHANGED env
       \/ /\ Fault
          /\ DecryptCatch(<<DecryptPrefix, HmacFailed>>)
          /\ UNCHANGED <<log, secrets>>
    /\ UNCHANGED <<pinBoxes, encryptedFileData, enc, timers, saved, history>>
    /\ UNCHANGED harnessVars

\* app.js:943-951, 440-470: the plaintext, the download, the timer that clears
\* the form, clearSensitiveData(extractedData.keyBytes), the finally block
DecryptCipher ==
    /\ dec.pc = "cipher"
    /\ \/ LET decrypted == decryptData(dec.encryptedData, dec.key, dec.extracted.iv)
              decryptedBlob == File(<<>>, "", decrypted.data)
              originalFilename == RemoveFirst(dec.file[1].name, ".encrypted")
          IN  IF decrypted.ok
              THEN /\ log' = Report(log, "decrypt", <<90, 100>>, <<"downloadBlob">>)
                   /\ saved' = [saved EXCEPT
                                   !.decrypted = Some(downloadBlob(decryptedBlob, originalFilename))]
                   /\ timers' = [timers EXCEPT !.decryptReset = @ + 1]
                   /\ secrets' = [secrets EXCEPT
                                     !.decKeyBytes = Some(clearSensitiveData(dec.extracted.keyBytes))]
                   /\ uiState' = [uiState EXCEPT !.isProcessing = FALSE]
                   /\ buttons' = updateButtonStates(setButtonLoading(buttons, "decrypt", FALSE),
                                                    uiState', pinBoxes)
                   /\ dec' = DecryptReturned(dec, "ok", <<>>)
                   /\ UNCHANGED <<modals, env>>
              ELSE /\ DecryptCatch(<<DecryptPrefix>> \o decrypted.error)
                   /\ UNCHANGED <<log, saved, timers, secrets, env>>
       \/ /\ Fault
          /\ \E message \in {<<DecryptPrefix, DecryptFailed>>,
                             <<"Failed to download file: ", "SecurityError">>} :
                DecryptCatch(message)
          /\ UNCHANGED <<log, saved, timers, secrets>>
    /\ UNCHANGED <<pinBoxes, encryptedFileData, enc, history>>
    /\ UNCHANGED harnessVars

\* app.js:450-456
DecryptResetTimer ==
    /\ timers.decryptReset > 0
    /\ timers' = [timers EXCEPT !.decryptReset = @ - 1]
    /\ uiState' = UIStateReset(uiState)
    /\ pinBoxes' = [pinBoxes EXCEPT !.decrypt = <<>>]
    /\ buttons' = updateButtonStates(buttons, uiState', pinBoxes')
    /\ UNCHANGED <<modals, encryptedFileData, enc, dec, saved, secrets, log, env, history>>
    /\ UNCHANGED harnessVars

\* ---- the downloads of the success modal (app.js:476-521) ----

\* app.js:476-481
HandleDownloadEncrypted ==
    /\ encryptedFileData # None
    /\ LET data == encryptedFileData[1]
       IN  saved' = [saved EXCEPT !.encrypted =
                        Some(downloadBlob(data.encrypted,
                                          data.originalFilename \o <<".encrypted">>))]
    /\ UNCHANGED <<uiState, pinBoxes, buttons, modals, encryptedFileData, enc, dec,
                   timers, secrets, log, env, history>>
    /\ UNCHANGED harnessVars

\* app.js:483-488
HandleDownloadKeyImage ==
    /\ encryptedFileData # None
    /\ LET data == encryptedFileData[1]
       IN  saved' = [saved EXCEPT !.keyImage =
                        Some(downloadBlob(data.image, <<"key-image.png">>))]
    /\ UNCHANGED <<uiState, pinBoxes, buttons, modals, encryptedFileData, enc, dec,
                   timers, secrets, log, env, history>>
    /\ UNCHANGED harnessVars

\* app.js:490-520: the two entries of the ZIP, and the timer that clears the
\* encrypt tab
HandleDownloadZip ==
    /\ encryptedFileData # None
    /\ timers.zipCleanup < MaxPendingTimers
    /\ LET data == encryptedFileData[1]
       IN  saved' = [saved EXCEPT !.zip =
                        Some(<<File(data.originalFilename \o <<".encrypted">>,
                                    data.encrypted.type, data.encrypted.data),
                               File(<<"key-image.png">>, data.image.type, data.image.data)>>)]
    /\ modals' = [modals EXCEPT !.successShown = FALSE]
    /\ timers' = [timers EXCEPT !.zipCleanup = @ + 1]
    /\ UNCHANGED <<uiState, pinBoxes, buttons, encryptedFileData, enc, dec,
                   secrets, log, env, history>>
    /\ UNCHANGED harnessVars

\* app.js:510-516
ZipCleanupTimer ==
    /\ timers.zipCleanup > 0
    /\ timers' = [timers EXCEPT !.zipCleanup = @ - 1]
    /\ uiState' = UIStateReset(uiState)
    /\ pinBoxes' = [pinBoxes EXCEPT !.encrypt = <<>>]
    /\ buttons' = updateButtonStates(buttons, uiState', pinBoxes')
    /\ encryptedFileData' = None
    /\ UNCHANGED <<modals, enc, dec, saved, secrets, log, env, history>>
    /\ UNCHANGED harnessVars

(***************************************************************************)
\* ---- the application as a whole ----

Next ==
    \/ HandleEncryptFileSelected
    \/ PINInput("encrypt")
    \/ PINInput("decrypt")
    \/ PINErase("encrypt")
    \/ PINErase("decrypt")
    \/ HandleDecryptFileSelected
    \/ HandleDecryptImageSelected
    \/ HandleEncrypt
    \/ EncryptDerive
    \/ EncryptRead
    \/ EncryptCipher
    \/ EncryptMac
    \/ EncryptImage
    \/ EncryptExport
    \/ EncryptBlob
    \/ HandleDownloadEncrypted
    \/ HandleDownloadKeyImage
    \/ HandleDownloadZip
    \/ ZipCleanupTimer
    \/ HandleDecrypt
    \/ DecryptLoad
    \/ DecryptDerive
    \/ DecryptRead
    \/ DecryptVerify
    \/ DecryptCipher
    \/ DecryptResetTimer

Spec == Init /\ [][Next]_vars

\* encryptions in a session on the encrypt tab alone
MaxResults == 2

\* the encrypt tab used on its own: files and PINs entered, up to MaxResults
\* encryptions, ZIP downloads and their cleanup timers
NextResults ==
    \/ HandleEncryptFileSelected
    \/ PINInput("encrypt")
    \/ HandleEncryptUpTo(MaxResults)
    \/ EncryptDerive
    \/ EncryptRead
    \/ EncryptCipher
    \/ EncryptMac
    \/ EncryptImage
    \/ EncryptExport
    \/ EncryptBlob
    \/ HandleDownloadZip
    \/ ZipCleanupTimer

SpecResults == Init /\ [][NextResults]_vars

\* every await of the two handlers is on a promise that settles (a Web Crypto
\* call, Blob.arrayBuffer, an image load with onload and onerror, toBlob), and
\* the event loop runs the continuation of a settled promise: a stage that is
\* pending is taken
CryptoStagesRun ==
    /\ WF_vars(EncryptDerive) /\ WF_vars(EncryptRead) /\ WF_vars(EncryptCipher)
    /\ WF_vars(EncryptMac)
    /\ WF_vars(DecryptDerive) /\ WF_vars(DecryptRead) /\ WF_vars(DecryptVerify)
    /\ WF_vars(DecryptCipher)

\* the same for the four stages that build or decode an image.  Each of them
\* is enabled exactly while pc names it (its continuation runs whether the
\* await resolved or rejected) and its step leaves that pc, so weak fairness
\* of the stage is: pc is again and again not at the stage
ImageStagesRun ==
    /\ []<>(enc.pc # "image") /\ []<>(enc.pc # "export") /\ []<>(enc.pc # "blob")
    /\ []<>(dec.pc # "load")

StagesRun == CryptoStagesRun /\ ImageStagesRun

SpecLive == Init /\ [][Next]_vars /\ StagesRun

(* Part IV.  The codec harness: embedDataInImage and extractDataFromImage  *)
(* applied to canvases of several shapes and contents, as                  *)
(* testSteganography (steganography.js:297-320) applies them.              *)
(***************************************************************************)

\* pixels the payload needs: (4 + 92) * 8 bits at 3 bits per pixel
PayloadBits == (HEADER_SIZE + SALT_SIZE + IV_SIZE + KEY_SIZE + HMAC_SIZE) * 8
MinPixels == (PayloadBits + 2) \div 3

\* how far the strip canvases go below and above MinPixels
MaxSlack == 1
\* embed calls per run
MaxEmbeds == 2
\* times the canvas is drawn on between calls, per run
MaxPaints == 1

TestDims ==
    {<<n, 1>> : n \in (MinPixels - MaxSlack)..(MinPixels + MaxSlack)}
    \cup {<<1, 1>>, <<15, 17>>, <<16, 16>>, <<1, MinPixels>>, <<17, 16>>}

TestFills == {"zero", "full", "ramp"}

TestCanvas(dim, fill) ==
    Canvas(dim[1], dim[2], [i \in 1..(dim[1] * dim[2] * 4) |-> FillByte(fill, i)])

TestPayload(fill) ==
    [salt |-> TestBytes(SALT_SIZE, fill, 0),
     iv |-> TestBytes(IV_SIZE, fill, 40),
     keyBytes |-> TestBytes(KEY_SIZE, fill, 80),
     hmac |-> TestBytes(HMAC_SIZE, fill, 120)]

InitCodec ==
    /\ \E dim \in TestDims, fill \in TestFills : cCanvas = TestCanvas(dim, fill)
    /\ cBefore = cCanvas
    /\ cPayload = NoFields
    /\ cEmbed = "none"
    /\ cEmbedErr = <<>>
    /\ cEmbeds = 0
    /\ cExtract = NoExtract
    /\ cPaints = 0
    /\ InitApp
    /\ LibIdle

\* one call of embedDataInImage on the canvas under test
CodecEmbed ==
    /\ cEmbeds < MaxEmbeds
    /\ \E fill \in TestFills :
        LET p == TestPayload(fill)
            r == embedDataInImage(cCanvas, p.salt, p.iv, p.hmac, p.keyBytes)
        IN  /\ cPayload' = p
            /\ cBefore' = cCanvas
            /\ cCanvas' = r.canvas
            /\ cEmbed' = IF r.ok THEN "ok" ELSE "error"
            /\ cEmbedErr' = r.error
    /\ cEmbeds' = cEmbeds + 1
    /\ cExtract' = NoExtract
    /\ UNCHANGED cPaints
    /\ UNCHANGED <<appVars, libVars>>

\* one call of extractDataFromImage on the canvas under test
CodecExtract ==
    /\ ~cExtract.done
    /\ LET r == extractDataFromImage(cCanvas)
       IN  cExtract' = [done |-> TRUE, ok |-> r.ok, fields |-> r.fields, error |-> r.error]
    /\ UNCHANGED <<cCanvas, cBefore, cPayload, cEmbed, cEmbedErr, cEmbeds, cPaints>>
    /\ UNCHANGED <<appVars, libVars>>

\* payload bits whose carrier is repainted: the first bit of the header (the
\* sign bit of the decoded length) and its last bit
PaintedBits == {0, 31}

\* canvas drawing after the embed calls of a run (steganography.js:120-121
\* reads whatever the canvas holds): the least-significant bit of the colour
\* byte that carries payload bit k of an embedded payload is inverted.  The
\* canvas is then no longer the output of an embed call.
CodecPaint ==
    /\ cPaints < MaxPaints
    /\ cEmbed = "ok" /\ cEmbeds = MaxEmbeds
    /\ \E k \in PaintedBits :
        LET at == 4 * (k \div 3) + (k % 3) + 1
        IN  /\ at <= Len(cCanvas.data)
            /\ cCanvas' = [cCanvas EXCEPT !.data[at] = IF @ % 2 = 1 THEN @ - 1 ELSE @ + 1]
    /\ cPaints' = cPaints + 1
    /\ cBefore' = cCanvas'
    /\ cPayload' = NoFields
    /\ cEmbed' = "none"
    /\ cEmbedErr' = <<>>
    /\ cExtract' = NoExtract
    /\ UNCHANGED cEmbeds
    /\ UNCHANGED <<appVars, libVars>>

\* widths a payload-bearing image is cropped to: one pixel short of the
\* payload, and ten pixels (30 bits, short of the 32 header bits by two zeros)
CropWidths == {MinPixels - 1, 10}

\* a crop of the first row of the image after the embed calls of a run
\* (steganography.js:181-186 gives the canvas the dimensions of whatever image
\* it is handed): the canvas becomes its first n pixels, one row.  The canvas
\* is then no longer the output of an embed call.
CodecCrop ==
    /\ cPaints < MaxPaints
    /\ cEmbed = "ok" /\ cEmbeds = MaxEmbeds
    /\ \E n \in CropWidths :
        /\ n <= cCanvas.width
        /\ cCanvas' = Canvas(n, 1, SubSeq(cCanvas.data, 1, 4 * n))
    /\ cPaints' = cPaints + 1
    /\ cBefore' = cCanvas'
    /\ cPayload' = NoFields
    /\ cEmbed' = "none"
    /\ cEmbedErr' = <<>>
    /\ cExtract' = NoExtract
    /\ UNCHANGED cEmbeds
    /\ UNCHANGED <<appVars, libVars>>

NextCodec == CodecEmbed \/ CodecExtract \/ CodecPaint \/ CodecCrop

SpecCodec == InitCodec /\ [][NextCodec]_vars

\* ---- properties of the codec ----

PixelsOf(canvas) == canvas.width * canvas.height

\* C1 (codec round trip): whenever embedDataInImage has succeeded on a canvas,
\* whatever its width, height and initial channel values, extractDataFromImage
\* applied to that canvas succeeds and returns exactly the salt, the IV, the key
\* bytes and the MAC that were embedded.
C1_CodecRoundTrip ==
    (cExtract.done /\ cEmbed = "ok") =>
        /\ cExtract.ok
        /\ cExtract.fields = cPayload

\* C1 happens: a payload that is neither all zeros nor all ones was embedded
\* in a canvas that is not a single row and has more pixels than needed, and
\* came back
C1_Witness ==
    /\ cExtract.done /\ cExtract.ok
    /\ cEmbed = "ok"
    /\ cEmbeds = 2
    /\ cPayload = TestPayload("ramp")
    /\ cExtract.fields = cPayload
    /\ cCanvas.width = 17 /\ cCanvas.height = 16
    /\ cCanvas.data[4] = 0

\* C3 (capacity boundary): embedDataInImage succeeds exactly on the canvases
\* of 256 pixels or more; on a canvas of 255 pixels or fewer it fails with the
\* capacity error and every byte of the canvas is what it was before the call.
C3_CapacityBoundary ==
    (cEmbed # "none") =>
        /\ (cEmbed = "ok") <=> (PixelsOf(cBefore) >= 256)
        /\ (cEmbed = "error") =>
              /\ PixelsOf(cBefore) <= 255
              /\ cCanvas = cBefore
              /\ cEmbedErr = <<EmbedPrefix, EmbedTooSmall>>

\* C3 happens: an embed call on a canvas of exactly 255 pixels has failed, and
\* the payload would have changed the canvas had it been written
C3_Witness ==
    /\ cEmbed = "error"
    /\ PixelsOf(cBefore) = 255
    /\ cBefore.data[1] % 2 # BitAt(numberToBytes(92)[1], 7)
    /\ cCanvas = cBefore
    /\ cEmbedErr = <<EmbedPrefix, EmbedTooSmall>>

\* where the RGBA bytes of a canvas hold payload bit k (index into data)
CarrierOf(k) == 4 * (k \div 3) + (k % 3) + 1

\* byte j (from 0) of the stream a canvas carries, read off the carriers of
\* its eight bits, most significant first; a bit the canvas has no pixel for
\* is 0
StreamByte(canvas, j) ==
    LET at(n) == CarrierOf(8 * j + n)
        b(n) == IF at(n) <= Len(canvas.data) THEN canvas.data[at(n)] % 2 ELSE 0
    IN  128 * b(0) + 64 * b(1) + 32 * b(2) + 16 * b(3)
        + 8 * b(4) + 4 * b(5) + 2 * b(6) + b(7)

\* bytes [from, to) of the stream of a canvas
StreamSlice(canvas, from, to) == [i \in 1..(to - from) |-> StreamByte(canvas, from + i - 1)]

\* C12 (payload layout): the 96 bytes a successful embedDataInImage leaves in
\* the canvas are 00 00 00 5C at [0, 4), the salt at [4, 20), the IV at
\* [20, 32), the raw key at [32, 64) and the MAC at [64, 96); and a successful
\* extractDataFromImage returns the bytes of the canvas' stream at those same
\* offsets as salt, IV, key and MAC.
C12_Layout ==
    /\ (cEmbed = "ok") =>
          /\ StreamSlice(cCanvas, 0, 4) = <<0, 0, 0, 92>>
          /\ StreamSlice(cCanvas, 4, 20) = cPayload.salt
          /\ StreamSlice(cCanvas, 20, 32) = cPayload.iv
          /\ StreamSlice(cCanvas, 32, 64) = cPayload.keyBytes
          /\ StreamSlice(cCanvas, 64, 96) = cPayload.hmac
    /\ (cExtract.done /\ cExtract.ok) =>
          /\ cExtract.fields.salt = StreamSlice(cCanvas, 4, 20)
          /\ cExtract.fields.iv = StreamSlice(cCanvas, 20, 32)
          /\ cExtract.fields.keyBytes = StreamSlice(cCanvas, 32, 64)
          /\ cExtract.fields.hmac = StreamSlice(cCanvas, 64, 96)

\* C12 happens: four fields that differ from one another were embedded in a
\* canvas that held other bits, and an extract call on it has returned
C12_Witness ==
    /\ cEmbed = "ok"
    /\ cPayload = TestPayload("ramp")
    /\ cBefore = TestCanvas(<<16, 16>>, "full")
    /\ cExtract.done /\ cExtract.ok
    /\ StreamSlice(cCanvas, 0, 4) = <<0, 0, 0, 92>>
    /\ StreamSlice(cCanvas, 32, 64) = cPayload.keyBytes
    /\ cPayload.keyBytes # cPayload.hmac

\* C13 (header check): an extractDataFromImage call returns the four fields
\* exactly when the first four bytes of the canvas' stream are 00 00 00 5C;
\* on any other header, one whose first bit is set included, it fails with
\* the format error and returns no field.
C13_HeaderCheck ==
    cExtract.done =>
        /\ cExtract.ok <=> (StreamSlice(cCanvas, 0, 4) = <<0, 0, 0, 92>>)
        /\ cExtract.ok =>
              /\ cExtract.error = <<>>
              /\ Len(cExtract.fields.salt) = SALT_SIZE
              /\ Len(cExtract.fields.keyBytes) = KEY_SIZE
        /\ ~cExtract.ok =>
              /\ cExtract.fields = NoFields
              /\ cExtract.error = <<ExtractPrefix, ExtractBadLength>>

\* C13 happens: an extract call has failed on a canvas whose header is
\* 80 00 00 5C, the expected length with the sign bit set
C13_Witness ==
    /\ cExtract.done /\ ~cExtract.ok
    /\ StreamSlice(cCanvas, 0, 4) = <<128, 0, 0, 92>>
    /\ cExtract.error = <<ExtractPrefix, ExtractBadLength>>

\* bit k of a byte sequence, the most significant bit of each byte first
PayloadBit(bytes, k) == (bytes[(k \div 8) + 1] \div (2 ^ (7 - (k % 8)))) % 2

\* C14 (bit placement): after a successful embedDataInImage, for every k in
\* 0..767 the least-significant bit of channel k mod 3 (R, G, B) of pixel
\* floor(k / 3) is bit k of the 96 payload bytes, most significant bit of each
\* byte first; and the bytes extractDataFromImage reconstructs from a canvas
\* have as their bit k the least-significant bit at that same position.
C14_BitPlacement ==
    /\ (cEmbed = "ok") =>
          LET payload == <<0, 0, 0, 92>> \o cPayload.salt \o cPayload.iv
                         \o cPayload.keyBytes \o cPayload.hmac
          IN  \A k \in 0..(PayloadBits - 1) :
                  cCanvas.data[4 * (k \div 3) + (k % 3) + 1] % 2 = PayloadBit(payload, k)
    /\ cExtract.done =>
          LET allBytes == allBytesOf(cCanvas)
          IN  \A k \in 0..(PayloadBits - 1) :
                  (k \div 3 < PixelsOf(cCanvas)) =>
                      PayloadBit(allBytes, k) = cCanvas.data[4 * (k \div 3) + (k % 3) + 1] % 2

\* C14 happens: a payload with both bit values was embedded over a canvas
\* whose least-significant bits were all set, and the canvas has been read
\* back; payload bit 29 (a 1 of the header, in the blue channel of pixel 9)
\* and payload bit 30 (a 0, in the red channel of pixel 10) are in place
C14_Witness ==
    /\ cEmbed = "ok"
    /\ cExtract.done
    /\ cBefore = TestCanvas(<<17, 16>>, "full")
    /\ cPayload = TestPayload("ramp")
    /\ cCanvas.data[4 * 9 + 2 + 1] % 2 = 1
    /\ cCanvas.data[4 * 10 + 0 + 1] % 2 = 0

\* a canvas with its alpha bytes (index 4p + 3 of the RGBA buffer) replaced by
\* those of a test pattern, every other byte as it is
WithAlpha(canvas, fill) ==
    LET n == Len(canvas.data)
        data == [i \in 1..n |-> IF i % 4 = 0 THEN FillByte(fill, i) ELSE canvas.data[i]]
    IN  [canvas EXCEPT !.data = SubSeq(data, 1, n)]

\* C15 (alpha is never touched): an embedDataInImage call leaves every alpha
\* byte of the canvas as it was, and what extractDataFromImage returns for a
\* canvas is what it returns for the same canvas with any other alpha bytes.
C15_AlphaUntouched ==
    /\ (cEmbed # "none") =>
          \A p \in 0..(PixelsOf(cCanvas) - 1) :
              cCanvas.data[4 * p + 3 + 1] = cBefore.data[4 * p + 3 + 1]
    /\ cExtract.done =>
          \A fill \in TestFills :
              LET other == extractDataFromImage(WithAlpha(cCanvas, fill))
              IN  /\ other.ok = cExtract.ok
                  /\ other.fields = cExtract.fields
                  /\ other.error = cExtract.error

\* C15 happens: a payload was embedded in a canvas whose alpha bytes are not
\* all alike and whose first alpha byte has a least-significant bit other than
\* the payload bit next to it, and the canvas has been read back
C15_Witness ==
    /\ cEmbed = "ok"
    /\ cExtract.done /\ cExtract.ok
    /\ cBefore = TestCanvas(<<16, 16>>, "ramp")
    /\ cCanvas.data[4] # cCanvas.data[8]
    /\ cCanvas.data[4] % 2 # cCanvas.data[5] % 2
    /\ WithAlpha(cCanvas, "zero") # cCanvas

\* C16 (embedding frame): a successful embedDataInImage changes nothing but
\* the least-significant bit of the R, G and B bytes of the first 256 pixels:
\* the canvas keeps its dimensions, every byte keeps its upper seven bits, and
\* every byte of pixel 256 and beyond is what it was.
C16_EmbedFrame ==
    (cEmbed = "ok") =>
        /\ cCanvas.width = cBefore.width /\ cCanvas.height = cBefore.height
        /\ Len(cCanvas.data) = Len(cBefore.data)
        /\ \A i \in 1..Len(cBefore.data) :
              /\ cCanvas.data[i] \div 2 = cBefore.data[i] \div 2
              /\ (i > 4 * MinPixels) => cCanvas.data[i] = cBefore.data[i]

\* C16 happens: a payload was embedded in a canvas of more than 256 pixels
\* whose bytes have upper bits set, and bits of the first 256 pixels changed
C16_Witness ==
    /\ cEmbed = "ok"
    /\ cBefore = TestCanvas(<<17, 16>>, "full")
    /\ cPayload = TestPayload("zero")
    /\ cCanvas.data[1] = 254
    /\ cCanvas.data[4 * MinPixels - 1] = 254
    /\ cCanvas.data[4 * MinPixels + 1] = 255

\* C24 (the capacity predicates agree): validateImageCapacity(width, height)
\* is true exactly of the canvases embedDataInImage accepts, and the threshold
\* of both is getRequiredImageSize().minPixels = ceil((4 + 92) * 8 / 3) = 256
\* pixels.
C24_CapacityAgree ==
    /\ getRequiredImageSize.minPixels = 256
    /\ getRequiredImageSize.dataBytes = 4 + 92
    /\ validateImageCapacity(cCanvas.width, cCanvas.height)
          <=> (PixelsOf(cCanvas) >= getRequiredImageSize.minPixels)
    /\ (cEmbed # "none") =>
          ((cEmbed = "ok") <=> validateImageCapacity(cBefore.width, cBefore.height))

\* C24 happens: embed calls have been made at the threshold; this one was on
\* a canvas of exactly 256 pixels, 16 by 16, and was accepted
C24_Witness ==
    /\ cEmbed = "ok"
    /\ cBefore.width = 16 /\ cBefore.height = 16
    /\ validateImageCapacity(16, 16)
    /\ ~validateImageCapacity(15, 17)

\* the canvas embedDataInImage leaves when it is handed payload p
Embedded(canvas, p) == embedDataInImage(canvas, p.salt, p.iv, p.hmac, p.keyBytes).canvas

\* C30 (embedding overwrites and is idempotent): when payload p2 has been
\* embedded in a canvas b of 256 pixels or more, the result is what embedding
\* p2 gives after any payload p1 was embedded in b first, and embedding p2 in
\* the result once more changes nothing: no bit of an earlier payload survives.
C30_Overwrite ==
    (cEmbed = "ok") =>
        /\ \A fill \in TestFills :
              Embedded(Embedded(cBefore, TestPayload(fill)), cPayload) = cCanvas
        /\ Embedded(cCanvas, cPayload) = cCanvas

\* C30 happens: a canvas that carried the all-ones payload has had another
\* payload embedded over it, and carries that one
C30_Witness ==
    /\ cEmbed = "ok"
    /\ cEmbeds = 2
    /\ StreamSlice(cBefore, 4, 20) = TestPayload("full").salt
    /\ cPayload = TestPayload("ramp")
    /\ StreamSlice(cCanvas, 4, 20) = cPayload.salt
    /\ cCanvas # cBefore

\* C29 as stated (extraction from an under-capacity buffer never succeeds): an
\* extractDataFromImage call on a canvas of fewer than 256 pixels fails.
C29_AsStated ==
    (cExtract.done /\ PixelsOf(cCanvas) < MinPixels) => ~cExtract.ok

(***************************************************************************)
(* Part V.  Properties of the application, checked under Spec.             *)
(***************************************************************************)

\* a handler invocation has returned
Returned(call) == call.pc = "idle" /\ call.outcome # "none"

Called(mode, name) == \E i \in 1..Len(log[mode].calls) : log[mode].calls[i] = name

\* b is a with exactly one bit flipped
OneBitApart(a, b) ==
    /\ Len(a) = Len(b)
    /\ a # b
    /\ \E k \in 0..(8 * Len(a) - 1) : b = FlipBit(a, k)

\* PNG b is PNG a with exactly one of the least-significant bits that carry
\* the payload flipped
OneLsbApart(a, b) ==
    /\ Len(a) = Len(b)
    /\ a # b
    /\ LET flipped == {k \in 0..(PayloadBits - 1) : a[LsbIndex(k)] # b[LsbIndex(k)]}
       IN  /\ Cardinality(flipped) = 1
           /\ b = FlipLsb(a, CHOOSE k \in flipped : TRUE)

\* what the latest handleDecrypt invocation was called with, against what
\* encryption h produced
SameCiphertext(h) == dec.file # None /\ dec.file[1].data = h.encrypted
SameImage(h) == dec.image # None /\ dec.image[1].data = h.image
SamePIN(h) == dec.pin = h.pin
GenuineCall(h) == SameCiphertext(h) /\ SameImage(h) /\ SamePIN(h)

C4_CiphertextTamper ==
    \A h \in history :
        (Returned(dec) /\ SameImage(h) /\ SamePIN(h) /\ dec.file # None
                       /\ OneBitApart(h.encrypted, dec.file[1].data)) =>
            /\ dec.outcome = "error"
            /\ ~Called("decrypt", "downloadBlob")
            /\ (env.faults = 0) => dec.error = <<DecryptPrefix, HmacFailed>>

\* C4 happens: a decrypt flow called with a ciphertext one bit off has failed
\* at the MAC verification
C4_Witness ==
    \E h \in history :
        /\ Returned(dec) /\ dec.outcome = "error"
        /\ dec.error = <<DecryptPrefix, HmacFailed>>
        /\ SameImage(h) /\ SamePIN(h) /\ dec.file # None
        /\ OneBitApart(h.encrypted, dec.file[1].data)
        /\ saved.decrypted = None

\* C5 as stated (wrong-key indistinguishability): a decrypt flow that fails
\* because of a wrong PIN, because of a wrong or corrupted key image, or
\* because of a tampered ciphertext shows one and the same message, the one
\* the wrong PIN shows.
C5_AsStated ==
    \A h \in history :
        (/\ Returned(dec) /\ dec.outcome = "error" /\ env.faults = 0
         /\ dec.file # None /\ dec.image # None /\ validatePIN(dec.pin).valid
         /\ \/ SameCiphertext(h) /\ SameImage(h) /\ ~SamePIN(h)
            \/ SameCiphertext(h) /\ ~SameImage(h) /\ SamePIN(h)
            \/ OneBitApart(h.encrypted, dec.file[1].data) /\ SameImage(h) /\ SamePIN(h))
        => getCryptoErrorMessage(dec.error) = MsgDecrypt

\* the errors of decryptFile's cryptographic checks
CryptoFailures == {DeriveFailed, HmacFailed, DecryptFailed}

\* C6 as stated (error collapsing): every cryptographic failure inside
\* decryptFile reaches handleDecrypt as one error with one message; the MAC
\* mismatch is among them, so every one of them carries its message.
C6_AsStated ==
    (Returned(dec) /\ dec.outcome = "error" /\ Len(dec.error) = 2
                   /\ dec.error[1] = DecryptPrefix /\ dec.error[2] \in CryptoFailures)
        => dec.error = <<DecryptPrefix, HmacFailed>>

\* C7 (fail-fast MAC check): decryptData is called only after verifyHMAC has
\* been called and the MAC has verified over the ciphertext; when decryptFile
\* has thrown the MAC error, decryptData was not called, nothing was
\* downloaded, and every progress value reported is below 50.
C7_MacBeforeDecrypt ==
    /\ (dec.pc = "cipher") =>
          /\ computeHMAC(dec.encryptedData, dec.key) = dec.extracted.hmac
          /\ Called("decrypt", "verifyHMAC")
    /\ Called("decrypt", "decryptData") =>
          \E i, j \in 1..Len(log.decrypt.calls) :
              /\ i < j
              /\ log.decrypt.calls[i] = "verifyHMAC"
              /\ log.decrypt.calls[j] = "decryptData"
    /\ (Returned(dec) /\ dec.error = <<DecryptPrefix, HmacFailed>>) =>
          /\ ~Called("decrypt", "decryptData")
          /\ ~Called("decrypt", "downloadBlob")
          /\ \A i \in 1..Len(log.decrypt.progress) : log.decrypt.progress[i] < 50

\* C7 happens: the MAC of a wrong PIN or of a tampered file did not verify and
\* decryptFile threw after the progress values 5, 15 and 30
C7_Witness ==
    /\ Returned(dec)
    /\ dec.error = <<DecryptPrefix, HmacFailed>>
    /\ env.faults = 0
    /\ log.decrypt.progress = <<5, 15, 30>>
    /\ Called("decrypt", "verifyHMAC")
    /\ ~Called("decrypt", "decryptData")

\* a buffer that does not exist or holds zero bytes only
Cleared(buffer) == buffer = None \/ buffer[1] = Zeros(Len(buffer[1]))

\* C8 as stated (zeroization on every exit path): once an encrypt or decrypt
\* flow has returned, by success or by error, every buffer of raw key bytes it
\* created is zero-filled.
C8_AsStated ==
    /\ Returned(enc) => Cleared(secrets.encKeyBytes) /\ Cleared(secrets.encMacKey)
    /\ Returned(dec) => Cleared(secrets.decKeyBytes) /\ Cleared(secrets.decMacKey)

\* C9 as stated (key-image tamper detection): when the decrypt flow is called
\* with the right PIN, the untouched ciphertext and the key image with one of
\* its 768 payload bits flipped, it ends in an error.
C9_AsStated ==
    \A h \in history :
        (Returned(dec) /\ SameCiphertext(h) /\ SamePIN(h) /\ dec.image # None
                       /\ OneLsbApart(h.image, dec.image[1].data))
        => dec.outcome = "error"

\* the encrypt flow has just returned the ciphertext and the key image of h
JustEncrypted(h) ==
    /\ Returned(enc) /\ enc.outcome = "ok"
    /\ dec = IdleDec
    /\ env.decryptInputs = 0
    /\ saved.encrypted = None /\ saved.keyImage = None /\ saved.zip = None
    /\ encryptedFileData # None
    /\ encryptedFileData[1].encrypted.data = h.encrypted
    /\ encryptedFileData[1].image.data = h.image

PinlessRecovery(ciphertext, imageBlob) ==
    LET extracted == extractDataFromImage(loadImageToCanvas(imageBlob))
    IN  IF ~extracted.ok
        THEN [ok |-> FALSE, data |-> <<>>]
        ELSE LET decrypted == decryptData(ciphertext,
                                          importKey(extracted.fields.keyBytes),
                                          extracted.fields.iv)
             IN  [ok |-> decrypted.ok, data |-> decrypted.data]

\* C11 as stated (the key material of the image is useless without the PIN):
\* whoever holds the encrypted file and the key image that an encryption has
\* just returned, and computes from them alone, does not obtain the plaintext.
C11_AsStated ==
    \A h \in history :
        (JustEncrypted(h) /\ Len(h.plain) >= 1) =>
            LET recovered == PinlessRecovery(h.encrypted, encryptedFileData[1].image)
            IN  ~(recovered.ok /\ recovered.data = h.plain)

\* the calls that produce or handle secret material, and the image decode
GuardedCalls ==
    {"generateRandomBytes", "deriveKeyFromPIN", "loadImageToCanvas",
     "extractDataFromImage", "encryptData", "decryptData"}

\* C19 (validation precedes secrets): in handleEncrypt and in handleDecrypt the
\* inputs are validated before any salt, IV or key is generated or derived and
\* before the image is decoded: an invocation that has made one of the guarded
\* calls has inputs that passed the validation, and an invocation whose inputs
\* fail it returns the formatted validation errors having called nothing.
C19_ValidationFirst ==
    /\ (\E name \in GuardedCalls : Called("encrypt", name)) =>
          validateEncryptionInputs(enc.file, enc.pin).valid
    /\ (\E name \in GuardedCalls : Called("decrypt", name)) =>
          validateDecryptionInputs(dec.file, dec.image, dec.pin).valid
    /\ (Returned(enc) /\ ~validateEncryptionInputs(enc.file, enc.pin).valid) =>
          /\ log.encrypt = NoLog
          /\ enc.outcome = "error"
          /\ enc.error = formatValidationErrors(
                             validateEncryptionInputs(enc.file, enc.pin).errors)
    /\ (Returned(dec) /\ ~validateDecryptionInputs(dec.file, dec.image, dec.pin).valid) =>
          /\ log.decrypt = NoLog
          /\ dec.outcome = "error"
          /\ dec.error = formatValidationErrors(
                             validateDecryptionInputs(dec.file, dec.image, dec.pin).errors)

\* C19 happens: the decrypt button was clicked with an encrypted file, a key
\* image and a PIN of five digits; the invocation has returned the validation
\* error and has called nothing
C19_Witness ==
    /\ Returned(dec)
    /\ dec.file # None /\ dec.image # None
    /\ Len(dec.pin) = 5
    /\ ~validateDecryptionInputs(dec.file, dec.image, dec.pin).valid
    /\ dec.outcome = "error"
    /\ log.decrypt = NoLog

\* the stage of the encryptFile invocation (app.js:875-913) behind enc: the
\* operation it is awaiting, or how it ended; it has returned once it has
\* reported 100, and it never started when the validation failed
EncStage ==
    CASE enc.pc \in {"derive", "read"} -> "Deriving"
      [] enc.pc = "cipher" -> "Encrypting"
      [] enc.pc = "mac" -> "Verifying"
      [] enc.pc \in {"image", "export", "blob"} -> "Done"
      [] OTHER -> IF \E i \in 1..Len(log.encrypt.progress) : log.encrypt.progress[i] = 100
                  THEN "Done"
                  ELSE IF enc.outcome = "none" \/ log.encrypt = NoLog
                       THEN "Idle"
                       ELSE "Failed"

\* the stage of the decrypt pipeline (app.js:421-437, 925-956) behind dec; the
\* extraction is what it does before it derives
DecStage ==
    CASE dec.pc = "load" -> "Idle"
      [] dec.pc \in {"derive", "read"} -> "Deriving"
      [] dec.pc = "verify" -> "Verifying"
      [] dec.pc = "cipher" -> "Decrypting"
      [] OTHER -> IF \E i \in 1..Len(log.decrypt.progress) : log.decrypt.progress[i] = 100
                  THEN "Done"
                  ELSE IF dec.outcome = "none" \/ log.decrypt = NoLog
                       THEN "Idle"
                       ELSE "Failed"

NonTerminal == {"Idle", "Deriving", "Encrypting", "Decrypting", "Verifying"}

\* the order of encryptFile: derive, encrypt, MAC
EncryptOrder ==
    {<<"Idle", "Deriving">>, <<"Deriving", "Encrypting">>, <<"Encrypting", "Verifying">>,
     <<"Verifying", "Done">>} \cup {<<s, "Failed">> : s \in NonTerminal}

\* the order of decryptFile: derive, MAC, decrypt
DecryptOrder ==
    {<<"Idle", "Deriving">>, <<"Deriving", "Verifying">>, <<"Verifying", "Decrypting">>,
     <<"Decrypting", "Done">>} \cup {<<s, "Failed">> : s \in NonTerminal}

\* the order of decryptFile with the MAC after the decryption
DecryptOrderMacLast ==
    {<<"Idle", "Deriving">>, <<"Deriving", "Decrypting">>, <<"Decrypting", "Verifying">>,
     <<"Verifying", "Done">>} \cup {<<s, "Failed">> : s \in NonTerminal}

\* a new invocation starts from the form and from nothing else
FreshEncrypt ==
    /\ enc.pc = "idle"
    /\ enc'.file = uiState.encryptFile /\ enc'.pin = pinBoxes.encrypt
    /\ [enc' EXCEPT !.pc = "idle", !.file = None, !.pin = <<>>, !.salt = <<>>, !.iv = <<>>,
                    !.outcome = "none", !.error = <<>>] = IdleEnc
    /\ EncStage' \in {"Idle", "Deriving"}
    /\ log'.encrypt.progress \in {<<>>, <<5>>}

FreshDecrypt ==
    /\ dec.pc = "idle"
    /\ dec'.file = uiState.decryptFile /\ dec'.image = uiState.decryptImage
    /\ dec'.pin = pinBoxes.decrypt
    /\ [dec' EXCEPT !.pc = "idle", !.file = None, !.image = None, !.pin = <<>>,
                    !.outcome = "none", !.error = <<>>] = IdleDec
    /\ DecStage' = "Idle"
    /\ log'.decrypt.progress = <<>>

StagesFollow(decryptOrder) ==
    /\ IF env'.encrypts # env.encrypts
       THEN FreshEncrypt
       ELSE EncStage' # EncStage => <<EncStage, EncStage'>> \in EncryptOrder
    /\ IF env'.decrypts # env.decrypts
       THEN FreshDecrypt
       ELSE DecStage' # DecStage => <<DecStage, DecStage'>> \in decryptOrder

EncFailedFrom(progress) == EncStage = "Failed" /\ log.encrypt.progress = progress
DecFailedFrom(progress) == DecStage = "Failed" /\ log.decrypt.progress = progress

\* C26 as stated (mutual exclusion of operations): while a handleEncrypt or a
\* handleDecrypt invocation is between its first statement and its finally
\* block, isProcessing is true and both action buttons are disabled, whatever
\* file selections, PIN inputs and delayed reset timers come in between.
C26_AsStated ==
    (enc.pc # "idle" \/ dec.pc # "idle") =>
        /\ uiState.isProcessing
        /\ buttons.encrypt.disabled
        /\ buttons.decrypt.disabled

\* C27 as stated (the result offered for download is the latest one): once a
\* handleEncrypt invocation has succeeded and while its success modal offers
\* the downloads, window.encryptedFileData holds the ciphertext, the key image
\* and the filename of that invocation; the cleanup timer of an earlier ZIP
\* download does not erase it.
C27_AsStated ==
    (Returned(enc) /\ enc.outcome = "ok" /\ modals.successShown) =>
        /\ encryptedFileData # None
        /\ encryptedFileData[1].originalFilename = enc.file[1].name
        /\ \E h \in history :
              /\ h.pin = enc.pin
              /\ h.plain = enc.file[1].data
              /\ h.encrypted = encryptedFileData[1].encrypted.data
              /\ h.image = encryptedFileData[1].image.data

\* the step on which an invocation leaves its finally block
EncryptReturns == enc'.pc = "idle" /\ (enc.pc # "idle" \/ env'.encrypts # env.encrypts)
DecryptReturns == dec'.pc = "idle" /\ (dec.pc # "idle" \/ env'.decrypts # env.decrypts)

\* what the finally blocks leave (app.js:390-394, 466-470)
FinallyLeaves ==
    /\ EncryptReturns =>
          /\ ~uiState'.isProcessing
          /\ ~buttons'.encrypt.loading
          /\ buttons'.encrypt.disabled =
                ~(isEncryptionReady(uiState', pinBoxes') /\ ~uiState'.isProcessing)
    /\ DecryptReturns =>
          /\ ~uiState'.isProcessing
          /\ ~buttons'.decrypt.loading
          /\ buttons'.decrypt.disabled =
                ~(isDecryptionReady(uiState', pinBoxes') /\ ~uiState'.isProcessing)

\* C28 (processing always ends): a handleEncrypt or handleDecrypt invocation
\* that is under way eventually returns, on success and on a failure at any
\* stage, and the step on which it returns leaves isProcessing false, the
\* button's loading state cleared and the button enabled exactly when the
\* inputs are ready and nothing is processing.
C28_ProcessingEnds ==
    /\ [][FinallyLeaves]_vars
    /\ (enc.pc # "idle") ~> (enc.pc = "idle")
    /\ (dec.pc # "idle") ~> (dec.pc = "idle")

\* C28 happens: a decryption has failed at the MAC and an encryption before it
\* has succeeded; both have returned, nothing is processing or loading, and
\* the decrypt button is enabled again for the inputs still in the form
C28_Witness ==
    /\ Returned(enc) /\ enc.outcome = "ok"
    /\ Returned(dec) /\ dec.outcome = "error"
    /\ log.decrypt.progress = <<5, 15, 30>>
    /\ ~uiState.isProcessing
    /\ ~buttons.encrypt.loading /\ ~buttons.decrypt.loading
    /\ isDecryptionReady(uiState, pinBoxes) /\ ~buttons.decrypt.disabled

\* what handleDecrypt does with the extracted parameters (app.js:426-441)
AfterExtraction == {"deriveKeyFromPIN", "arrayBuffer", "verifyHMAC", "decryptData", "downloadBlob"}

\* C23 (extraction gates the decrypt flow): in a handleDecrypt invocation the
\* payload extraction is called before the key derivation, the MAC
\* verification, the decryption and the download; when the header of the
\* selected image does not decode to 92, the invocation ends with the
\* extraction error having called none of them and reported no progress.
C23_ExtractionGates ==
    /\ \A i \in 1..Len(log.decrypt.calls) :
          (log.decrypt.calls[i] \in AfterExtraction) =>
              \E j \in 1..(i - 1) : log.decrypt.calls[j] = "extractDataFromImage"
    /\ (dec.image # None /\ Called("decrypt", "extractDataFromImage")) =>
          LET extractedData == extractDataFromImage(loadImageToCanvas(dec.image[1]))
          IN  ~extractedData.ok =>
                 /\ \A name \in AfterExtraction : ~Called("decrypt", name)
                 /\ log.decrypt.progress = <<>>
                 /\ Returned(dec)
                 /\ dec.outcome = "error"
                 /\ dec.error = <<ExtractPrefix, ExtractBadLength>>

\* C23 happens: handleDecrypt was given an image whose header does not decode
\* to 92 and has returned after the extraction failed
C23_Witness ==
    /\ Returned(dec)
    /\ dec.image # None
    /\ dec.error = <<ExtractPrefix, ExtractBadLength>>
    /\ log.decrypt.calls = <<"loadImageToCanvas", "extractDataFromImage">>
    /\ saved.decrypted = None

(***************************************************************************)
(* Part VI.  The exported functions of validation.js and crypto.js called  *)
(* directly, by a caller other than the handlers of app.js.                *)
(***************************************************************************)

\* calls per run
MaxCalls == 2

\* the values handed over as a pin: nothing, the empty string, a number, too
\* short, too long, six characters with a letter or with a digit that is not
\* ASCII (ARABIC-INDIC DIGIT THREE, written "U+0663"), a PIN of the weak list,
\* two PINs that are not on it
CallPINs ==
    { Undefined,
      Str(<<>>),
      Num(<<"1", "2", "3", "4", "5", "6">>),
      Str(<<"1", "2", "3">>),
      Str(<<"1", "2", "3", "4", "5", "6", "7">>),
      Str(<<"1", "2", "3", "4", "5", "a">>),
      Str(<<"1", "2", "3", "4", "5", "U+0663">>),
      Str(<<"1", "2", "3", "4", "5", "6">>),
      Str(<<"2", "7", "4", "9", "1", "5">>),
      Str(<<"9", "0", "3", "1", "8", "6">>) }

\* the pins TextEncoder.encode turns into one byte or more per character
CallStrings == {pin \in CallPINs : pin.type = "string" /\ pin.chars # <<>>}

\* the use an encryptFile call made of a salt, an IV and a key: it called
\* encryptData (app.js:891) once it had reported 30
UsedBy(call) ==
    IF call.fn = "encryptFile" /\ (\E i \in 1..Len(call.progress) : call.progress[i] = 30)
    THEN {[salt |-> call.salt, iv |-> call.iv, key |-> call.key]}
    ELSE {}

\* the record of a new call, after the calls before it
After(call) == [call EXCEPT !.drawn = lib.drawn, !.used = lib.used \cup UsedBy(lib)]

\* validation.js:13-46 called
CallValidatePIN ==
    /\ libCalls < MaxCalls
    /\ \E pin \in CallPINs :
        lib' = After([NoCall EXCEPT !.fn = "validatePIN", !.pin = pin,
                                    !.validation = validatePINValue(pin),
                                    !.ok = validatePINValue(pin).valid])
    /\ libCalls' = libCalls + 1
    /\ UNCHANGED <<appVars, codecVars>>

\* app.js:680-714 called; the platform may reject the derivation
CallDeriveKeyFromPIN ==
    /\ libCalls < MaxCalls
    /\ \E pin \in CallStrings, draw \in RandomDraws, fails \in BOOLEAN :
        lib' = After(IF fails
                     THEN [NoCall EXCEPT !.fn = "deriveKeyFromPIN", !.pin = pin,
                                         !.salt = draw.salt, !.error = <<DeriveFailed>>]
                     ELSE [NoCall EXCEPT !.fn = "deriveKeyFromPIN", !.pin = pin,
                                         !.salt = draw.salt, !.ok = TRUE,
                                         !.key = deriveKeyFromPIN(pin.chars, draw.salt)])
    /\ libCalls' = libCalls + 1
    /\ UNCHANGED <<appVars, codecVars>>

\* app.js:875-913 called; crypto.getRandomValues (app.js:668-672) is an ideal
\* random source: it returns a salt and an IV it has not returned before
CallEncryptFile ==
    /\ libCalls < MaxCalls
    /\ \E file \in TestFiles, pin \in CallStrings, draw \in RandomDraws \ lib.drawn,
          failAt \in 0..4 :
        LET r == encryptFile(file, pin.chars, draw, failAt)
        IN  lib' = [After([NoCall EXCEPT
                              !.fn = "encryptFile", !.pin = pin, !.input = file.data,
                              !.salt = r.salt, !.iv = r.iv, !.ok = r.ok, !.key = r.key,
                              !.output = r.encrypted, !.hmac = r.hmac,
                              !.progress = r.progress, !.error = r.error])
                    EXCEPT !.drawn = @ \cup {draw}]
    /\ libCalls' = libCalls + 1
    /\ UNCHANGED <<appVars, codecVars>>

\* app.js:925-956 called on what the latest encryptFile call returned
CallDecryptFile ==
    /\ libCalls < MaxCalls
    /\ lib.fn = "encryptFile" /\ lib.ok
    /\ \E pin \in CallStrings, failAt \in 0..3 :
        LET encryptedBlob == File(<<>>, "application/octet-stream", lib.output)
            r == decryptFile(encryptedBlob, pin.chars, lib.salt, lib.iv, lib.hmac, failAt)
        IN  lib' = After([NoCall EXCEPT
                              !.fn = "decryptFile", !.pin = pin, !.input = lib.output,
                              !.salt = lib.salt, !.iv = lib.iv, !.hmac = lib.hmac,
                              !.ok = r.ok, !.key = r.key, !.output = r.data,
                              !.progress = r.progress, !.error = r.error])
    /\ libCalls' = libCalls + 1
    /\ UNCHANGED <<appVars, codecVars>>

NextCalls == CallValidatePIN \/ CallDeriveKeyFromPIN \/ CallEncryptFile \/ CallDecryptFile

SpecCalls == Init /\ [][NextCalls]_vars

\* ---- properties of the exported functions ----

\* C17 as stated (key derivation validates the PIN): a call of deriveKeyFromPIN,
\* encryptFile or decryptFile with a pin that is not six digits fails, and no
\* key has been derived from that pin.
C17_AsStated ==
    (lib.fn \in {"deriveKeyFromPIN", "encryptFile", "decryptFile"}
        /\ ~validatePINValue(lib.pin).valid)
    => (~lib.ok /\ lib.key = <<>>)

\* the value is a string of exactly six ASCII digits
SixDigits(pin) ==
    /\ pin.type = "string"
    /\ Len(pin.chars) = 6
    /\ \A i \in 1..Len(pin.chars) :
          pin.chars[i] \in {"0", "1", "2", "3", "4", "5", "6", "7", "8", "9"}

\* C18 (PIN validity): validatePIN reports valid exactly for the strings of
\* six ASCII digits; for every other value (nothing, the empty string, a value
\* that is not a string, another length, a character that is not a digit) it
\* reports not valid, with an error; a PIN of the weak list is valid all the
\* same, and carries a warning and no error.
C18_PINValidity ==
    (lib.fn = "validatePIN") =>
        /\ lib.validation.valid <=> SixDigits(lib.pin)
        /\ ~lib.validation.valid =>
              /\ lib.validation.error # ""
              /\ lib.validation.warning = ""
        /\ lib.validation.valid =>
              /\ lib.validation.error = ""
              /\ (lib.validation.warning # "") <=> (lib.pin.chars \in WeakPatterns)

\* C18 happens: validatePIN was called with the weak PIN 123456 and found it
\* valid, with the warning
C18_Witness ==
    /\ lib.fn = "validatePIN"
    /\ lib.pin = Str(<<"1", "2", "3", "4", "5", "6">>)
    /\ lib.validation.valid
    /\ lib.validation.warning = WeakWarning

\* a is an initial segment of b
IsPrefix(a, b) == Len(a) <= Len(b) /\ a = SubSeq(b, 1, Len(a))

\* the values of a sequence grow from each one to the next
StrictlyIncreasing(seq) == \A i \in 1..(Len(seq) - 1) : seq[i] < seq[i + 1]

Reported(value) == \E i \in 1..Len(lib.progress) : lib.progress[i] = value

\* C20 (progress checkpoints): what an encryptFile call reports is an initial
\* segment of the fixed checkpoints 5, 10, 30, 80, 90, 100, hence strictly
\* increasing; 10 is reported exactly when the key has been derived, 30 before
\* and 80 after the cipher pass, 90 after the MAC, 100 last; 100 is reported
\* exactly by the calls that succeed.  What a decryptFile call reports is an
\* initial segment of 5, 15, 30, 50, 90, 100, with 100 exactly on success.
C20_ProgressCheckpoints ==
    /\ (lib.fn = "encryptFile") =>
          /\ IsPrefix(lib.progress, <<5, 10, 30, 80, 90, 100>>)
          /\ StrictlyIncreasing(lib.progress)
          /\ Reported(10) <=> (lib.key # <<>>)
          /\ (lib.error = <<EncryptPrefix, "Failed to encrypt data">>) =>
                (Reported(30) /\ ~Reported(80))
          /\ (lib.error = <<EncryptPrefix, "Failed to compute HMAC">>) =>
                (Reported(80) /\ ~Reported(90))
          /\ Reported(100) <=> lib.ok
          /\ lib.ok => lib.progress[Len(lib.progress)] = 100
    /\ (lib.fn = "decryptFile") =>
          /\ IsPrefix(lib.progress, <<5, 15, 30, 50, 90, 100>>)
          /\ StrictlyIncreasing(lib.progress)
          /\ Reported(100) <=> lib.ok
          /\ lib.ok => lib.progress[Len(lib.progress)] = 100

\* C20 happens: an encryptFile call has derived the key and run the cipher,
\* has failed at the MAC and has reported 5, 10, 30, 80 and not 100
C20_Witness ==
    /\ lib.fn = "encryptFile"
    /\ ~lib.ok
    /\ lib.key # <<>>
    /\ lib.error = <<EncryptPrefix, "Failed to compute HMAC">>
    /\ lib.progress = <<5, 10, 30, 80>>

\* C22 (fresh salt and IV): the salt and the IV of an encryptFile call are 16
\* and 12 bytes the random source returned to that call, the key is derived
\* from that salt, and no earlier encryption used that salt, that IV, or that
\* key with that IV.
C22_FreshSaltIV ==
    (lib.fn = "encryptFile") =>
        /\ Len(lib.salt) = 16 /\ Len(lib.iv) = 12
        /\ [salt |-> lib.salt, iv |-> lib.iv] \in lib.drawn
        /\ (lib.key # <<>>) => lib.key = deriveKeyFromPIN(lib.pin.chars, lib.salt)
        /\ \A u \in lib.used :
              /\ u.salt # lib.salt
              /\ u.iv # lib.iv
              /\ ~(u.key = lib.key /\ u.iv = lib.iv)

\* C22 happens: a second encryptFile call has encrypted with the PIN of the
\* first one
C22_Witness ==
    /\ lib.fn = "encryptFile" /\ lib.ok
    /\ libCalls = 2
    /\ \E u \in lib.used :
          /\ SubSeq(u.key, SALT_LENGTH + 1, KEY_SIZE) = SubSeq(lib.key, SALT_LENGTH + 1, KEY_SIZE)
          /\ u.key # lib.key

(***************************************************************************)
(* Part VII.  The ZIP writer of the success modal: createZip and crc32     *)
(* (app.js:523-602) applied to lists of files, specification SpecZip.      *)
(***************************************************************************)

\* files per archive
MaxZipFiles == 3

\* DataView.setUint16(offset, value, true): the value modulo 2^16, low byte first
setUint16(value) == <<value % 256, (value \div 256) % 256>>

\* DataView.setUint32(offset, value, true) of a value below 2^31
setUint32(value) ==
    <<value % 256, (value \div 256) % 256, (value \div 65536) % 256,
      (value \div 16777216) % 256>>

\* an unsigned 32-bit value is kept as its two 16-bit halves <<high, low>>:
\* crc32 works on values up to 2^32 - 1

\* DataView.setUint32(offset, value, true) of such a value
setUint32Halves(word) ==
    <<word[2] % 256, word[2] \div 256, word[1] % 256, word[1] \div 256>>

\* the ^ of JavaScript on two non-negative numbers
RECURSIVE Xor(_, _)
Xor(a, b) ==
    IF a = 0 THEN b
    ELSE IF b = 0 THEN a
    ELSE ((a + b) % 2) + 2 * Xor(a \div 2, b \div 2)

\* 0xEDB88320 (app.js:598) as 0xEDB8 and 0x8320
CRC_POLY_HIGH == 60856
CRC_POLY_LOW == 33568

\* app.js:597-599: j steps of crc = (crc >>> 1) ^ (crc & 1 ? 0xEDB88320 : 0)
RECURSIVE crcShift(_, _)
crcShift(crc, j) ==
    IF j = 0 THEN crc
    ELSE LET high == crc[1] \div 2
             low == (crc[2] \div 2) + 32768 * (crc[1] % 2)
         IN  IF crc[2] % 2 = 1
             THEN crcShift(<<Xor(high, CRC_POLY_HIGH), Xor(low, CRC_POLY_LOW)>>, j - 1)
             ELSE crcShift(<<high, low>>, j - 1)

\* app.js:595-600: the loop over data[i..]
RECURSIVE crcBytes(_, _, _)
crcBytes(crc, data, i) ==
    IF i > Len(data) THEN crc
    ELSE crcBytes(crcShift(<<crc[1], Xor(crc[2], data[i])>>, 8), data, i + 1)

\* app.js:593-602
crc32(data) ==
    LET crc == crcBytes(<<65535, 65535>>, data, 1)
    IN  <<Xor(crc[1], 65535), Xor(crc[2], 65535)>>

\* new TextEncoder().encode(name) (app.js:529): UTF-8 of code points below
\* 0x800, one byte below 0x80 and two bytes from there
RECURSIVE TextEncode(_)
TextEncode(name) ==
    IF name = <<>> THEN <<>>
    ELSE LET c == Head(name)
         IN  (IF c < 128 THEN <<c>> ELSE <<192 + (c \div 64), 128 + (c % 64)>>)
             \o TextEncode(Tail(name))

\* app.js:533-546
LocalHeader(nameBytes, crc, size) ==
    setUint32(67324752) \o setUint16(20) \o setUint16(0) \o setUint16(0)
    \o setUint16(0) \o setUint16(0) \o setUint32Halves(crc) \o setUint32(size)
    \o setUint32(size) \o setUint16(Len(nameBytes)) \o setUint16(0) \o nameBytes

\* app.js:551-570
CentralEntry(nameBytes, crc, size, offset) ==
    setUint32(33639248) \o setUint16(20) \o setUint16(20) \o setUint16(0)
    \o setUint16(0) \o setUint16(0) \o setUint16(0) \o setUint32Halves(crc)
    \o setUint32(size) \o setUint32(size) \o setUint16(Len(nameBytes)) \o setUint16(0)
    \o setUint16(0) \o setUint16(0) \o setUint16(0) \o setUint32(0)
    \o setUint32(offset) \o nameBytes

\* a variant of ZipLoop whose offset counts the data of a file and not its
\* local header
RECURSIVE ZipLoopDataOnly(_, _, _, _, _)
ZipLoopDataOnly(files, i, parts, centralDir, offset) ==
    IF i > Len(files) THEN [parts |-> parts, centralDir |-> centralDir, offset |-> offset]
    ELSE LET file == files[i]
             nameBytes == TextEncode(file.name)
             crc == crc32(file.data)
             localHeader == LocalHeader(nameBytes, crc, Len(file.data))
             cdEntry == CentralEntry(nameBytes, crc, Len(file.data), offset)
         IN  ZipLoopDataOnly(files, i + 1, parts \o localHeader \o file.data,
                             centralDir \o cdEntry, offset + Len(file.data))

\* app.js:528-574: the loop over the files
RECURSIVE ZipLoop(_, _, _, _, _)
ZipLoop(files, i, parts, centralDir, offset) ==
    IF i > Len(files) THEN [parts |-> parts, centralDir |-> centralDir, offset |-> offset]
    ELSE LET file == files[i]
             nameBytes == TextEncode(file.name)
             crc == crc32(file.data)
             localHeader == LocalHeader(nameBytes, crc, Len(file.data))
             cdEntry == CentralEntry(nameBytes, crc, Len(file.data), offset)
         IN  ZipLoop(files, i + 1, parts \o localHeader \o file.data,
                     centralDir \o cdEntry, offset + Len(localHeader) + Len(file.data))

\* app.js:523-591: the bytes of the Blob
createZip(files) ==
    LET done == ZipLoop(files, 1, <<>>, <<>>, 0)
        cdSize == Len(done.centralDir)
        eocd == setUint32(101010256) \o setUint16(0) \o setUint16(0)
                \o setUint16(Len(files)) \o setUint16(Len(files))
                \o setUint32(cdSize) \o setUint32(done.offset) \o setUint16(0)
    IN  done.parts \o done.centralDir \o eocd

\* files to archive: names of one and two byte characters, data of several
\* lengths, the empty one included
ZipFiles ==
    {[name |-> <<97>>, data |-> <<97>>],
     [name |-> <<233, 46, 101>>, data |-> <<>>],
     [name |-> <<107, 46, 112, 110, 103>>, data |-> <<137, 80, 0, 255>>],
     [name |-> <<97, 98>>, data |-> <<1, 2>>]}

ZipLists ==
    UNION {[1..n -> ZipFiles] : n \in 0..MaxZipFiles}

\* a list of files is about to be archived
InitZip ==
    /\ InitApp /\ CodecIdle
    /\ libCalls = 0
    /\ \E files \in ZipLists : lib = [NoCall EXCEPT !.input = files]

\* app.js:523-591 called
CallCreateZip ==
    /\ lib.fn = "none"
    /\ libCalls < MaxCalls
    /\ lib' = [lib EXCEPT !.fn = "createZip", !.output = createZip(lib.input), !.ok = TRUE]
    /\ libCalls' = libCalls + 1
    /\ UNCHANGED <<appVars, codecVars>>

NextZip == CallCreateZip

SpecZip == InitZip /\ [][NextZip]_vars

\* the number two or four bytes of the archive spell, low byte first
ReadLE(bytes, at, width) ==
    LET field == SubSeq(bytes, at + 1, at + width)
    IN  field[1] + 256 * field[2]
        + (IF width = 4 THEN 65536 * field[3] + 16777216 * field[4] ELSE 0)

\* the sum of base + the length of the name + (with the data) the length of the
\* data over the first k files
RECURSIVE SizesBefore(_, _, _, _)
SizesBefore(files, k, base, withData) ==
    IF k = 0 THEN 0
    ELSE SizesBefore(files, k - 1, base, withData) + base + Len(TextEncode(files[k].name))
         + (IF withData THEN Len(files[k].data) ELSE 0)

\* C25 (createZip writes a consistent stored archive): the i-th central entry
\* records as local-header offset the sum of 30 + name length + data length
\* over the files before it, a local header starts there, both sizes of the
\* entry are the data length and its CRC is the local header's and the CRC-32
\* of the data; the end record holds the file count twice, the size
\* sum(46 + name length) of the central directory and the offset where it
\* starts, and ends the archive.
C25_ZipConsistent ==
    (lib.fn = "createZip") =>
        LET files == lib.input
            zip == lib.output
            n == Len(files)
            cdStart == SizesBefore(files, n, 30, TRUE)
            cdSize == SizesBefore(files, n, 46, FALSE)
            eocd == cdStart + cdSize
        IN  /\ \A i \in 1..n :
                  LET local == SizesBefore(files, i - 1, 30, TRUE)
                      entry == cdStart + SizesBefore(files, i - 1, 46, FALSE)
                      nameLength == Len(TextEncode(files[i].name))
                  IN  /\ ReadLE(zip, entry, 4) = 33639248
                      /\ ReadLE(zip, entry + 42, 4) = local
                      /\ ReadLE(zip, local, 4) = 67324752
                      /\ ReadLE(zip, entry + 10, 2) = 0
                      /\ ReadLE(zip, entry + 20, 4) = Len(files[i].data)
                      /\ ReadLE(zip, entry + 24, 4) = Len(files[i].data)
                      /\ ReadLE(zip, local + 18, 4) = Len(files[i].data)
                      /\ ReadLE(zip, entry + 28, 2) = nameLength
                      /\ SubSeq(zip, entry + 17, entry + 20) = SubSeq(zip, local + 15, local + 18)
                      /\ SubSeq(zip, entry + 17, entry + 20) = setUint32Halves(crc32(files[i].data))
                      /\ SubSeq(zip, local + 31, local + 30 + nameLength)
                            = TextEncode(files[i].name)
                      /\ SubSeq(zip, local + 31 + nameLength,
                                local + 30 + nameLength + Len(files[i].data)) = files[i].data
            /\ Len(zip) = eocd + 22
            /\ ReadLE(zip, eocd, 4) = 101010256
            /\ ReadLE(zip, eocd + 8, 2) = n
            /\ ReadLE(zip, eocd + 10, 2) = n
            /\ ReadLE(zip, eocd + 12, 4) = cdSize
            /\ ReadLE(zip, eocd + 16, 4) = cdStart

\* C25 happens: three files with names and data of different lengths were
\* archived, the second one empty with a two-byte character in its name; the
\* CRC-32 of the first one, of the byte 'a', is E8B7BE43
C25_Witness ==
    /\ lib.fn = "createZip"
    /\ Len(lib.input) = 3
    /\ lib.input[1].data = <<97>>
    /\ lib.input[2].data = <<>> /\ Len(TextEncode(lib.input[2].name)) = 4
    /\ Len(lib.input[3].data) = 4
    /\ SubSeq(lib.output, 15, 18) = <<67, 190, 183, 232>>

====
